---- MODULE Spec2Model ----
(***************************************************************************)
(* Tool-orchestration core of mcp-studio.                                  *)
(*                                                                         *)
(*  Part I   MCPService: the session registry (clients) and the call       *)
(*           dispatcher (activeToolCalls); asynchronous callers interleave *)
(*           at every await.                    SpecReg, SpecSeq           *)
(*  Part II  ToolProcessor.processToolCalls: the response normalizer, on   *)
(*           token strings.                     SpecNorm                   *)
(*  Part III generateResponseWithTools of the native provider adapters     *)
(*           (OpenAI, DeepSeek, Anthropic, Gemini) under withRetry.        *)
(*                                              SpecAdapter                *)
(*  Part IV  AIService.generateResponseWithTools: the orchestration of one *)
(*           conversation turn and the tool catalog.   SpecTurn            *)
(*  Part V   MCPService.getServerKey and initClient on server              *)
(*           configurations, one caller.               SpecKey             *)
(*  Part VI  BaseProvider.withRetry around one operation.                  *)
(*                                              SpecRetry, SpecRetryFair   *)
(*  Part VII The ai:generateResponseWithTools handler: turns that overlap  *)
(*           on one AIService.                     SpecTurns               *)
(*  Part VIII ToolProcessor.parseFunctionArgs on argument strings.         *)
(*                                                 SpecArgs                *)
(*                                                                         *)
(*  Each specification moves the variables of its own part and leaves the  *)
(*  other parts at rest.                                                   *)
(***************************************************************************)
EXTENDS Integers, Sequences, FiniteSets, TLC

(* ----------------------------- bounds ---------------------------------- *)
\* concurrent callers of MCPService (IPC handlers, provider adapters)
NProcs == 2
\* Client objects constructed over a run
MaxSessions == 2
\* operations (initClient, callTool, abortTool, stopServer, cleanup) started
\* over a run
MaxOps == 2

\* keyword arguments in one function call
MaxArgs == 2
\* turns (ai:generateResponseWithTools requests) over a run
NTurns == 2
\* largest maxRetries argument withRetry is called with
MaxAttempts == 6

Procs == 1..NProcs
\* distinct server fingerprints (values of getServerKey)
Keys == {"k1", "k2"}
\* caller-supplied or generated call identifiers
CallIds == {"a", "b"}
Sessions == 1..MaxSessions
\* "no session" / "no controller"
None == 0

VARIABLES
    clients,          \* MCPService.clients, in Map insertion order: <<[key, sess]>>
    activeToolCalls,  \* MCPService.activeToolCalls: callId -> controller (its caller) or None
    aborted,          \* AbortController.signal.aborted of the controller made by each caller
    open,             \* Client objects whose transport is connected and not closed
    nextSess,         \* next Client object to construct
    opCount,          \* operations started so far
    procs,            \* per caller: position and locals of its running operation
    ret,              \* per caller: outcome of its last finished operation
    ghost,            \* per caller: history of the running/last operation
    abortRet          \* the abortTool call just made, if any: callId, return value

regVars == <<clients, activeToolCalls, aborted, open, nextSess, opCount,
             procs, ret, ghost, abortRet>>

VARIABLES
    response,          \* processToolCalls' argument: the model output, as tokens
    toolCallMatches,   \* response.match(toolCallRegex): the matches, in order
    toolCodeMatches,   \* response.match(toolCodeRegex)
    processedResponse, \* the text being substituted
    toolCalls,         \* the accumulated ToolCall records
    npc,               \* position in processToolCalls
    mi,                \* index of the match being processed
    fi,                \* processCodeToolCall: index of the function being tried
    si,                \* processCodeToolCall: index of the server being tried
    inflight,          \* the callTool being awaited, if any
    dispatched,        \* history: the callTool invocations issued, in order
    settled            \* history: how many of them have settled

normVars == <<response, toolCallMatches, toolCodeMatches, processedResponse,
              toolCalls, npc, mi, fi, si, inflight, dispatched, settled>>

VARIABLES
    provider,           \* the adapter class whose generateResponseWithTools runs
    attempt,            \* withRetry: attempt
    apc,                \* position of the turn
    message,            \* the tool calls of the first-pass response of this attempt
    ti,                 \* index of the tool-call loop
    executedToolCalls,  \* executedToolCalls of this attempt
    followUps,          \* follow-up completions requested so far in the turn
    followUpEntries,    \* tool-result entries of the follow-up request of this attempt
    invocations,        \* mcpService.callTool calls made so far in the turn
    result,             \* the AIProviderResponse returned
    firstText,          \* the text of the first-pass response of this attempt
    finalResponse,      \* finalResponse of this attempt
    mark                \* history: followUps and invocations when this attempt's
                        \* first pass returned

adapterVars == <<provider, attempt, apc, message, ti, executedToolCalls, followUps,
                 followUpEntries, invocations, result, firstText, finalResponse, mark>>

VARIABLES
    providerId,      \* generateResponseWithTools: providerId
    activeServers,   \* AIService.activeServers
    serverIds,       \* generateResponseWithTools: serverIds, or Absent
    tpc,             \* position of the turn
    gi,              \* getAvailableTools: index of the server loop
    availableTools,  \* getAvailableTools: tools
    turnResult,      \* the AIProviderResponse the turn returns
    failure          \* history: the provider-level failure that occurred in the turn

turnVars == <<providerId, activeServers, serverIds, tpc, gi, availableTools,
              turnResult, failure>>

VARIABLES
    serverConfig, \* the MCPServer configuration the caller holds
    keyed,        \* MCPService.clients by getServerKey: <<[key, sess]>>, sess the
                  \* transport the stored Client was connected with
    acquired,     \* what initClient returned or threw for the configuration as
                  \* it is now
    steps         \* edits and initClient calls so far

keyVars == <<serverConfig, keyed, acquired, steps>>

VARIABLES
    configKey,     \* the provider configuration the adapter was constructed with
    maxRetriesArg, \* withRetry: maxRetries
    tryNo,         \* withRetry: attempt
    wpc,           \* position in withRetry
    lastError,     \* withRetry: lastError (the attempt whose error it is, or 0)
    opCalls,         \* history: how often the operation was called
    delays,        \* history: the delays awaited, in ms
    outcome        \* what withRetry returned or threw

retryVars == <<configKey, maxRetriesArg, tryNo, wpc, lastError, opCalls, delays, outcome>>

VARIABLES
    activeServersField, \* AIService.activeServers, shared by all turns
    turns               \* per turn: its position, arguments and locals

turnsVars == <<activeServersField, turns>>

VARIABLES
    argList,     \* the keyword arguments the model wrote: <<[key, quote, value]>>
    argsString,  \* parseFunctionArgs' argument, as tokens
    parsedArgs,  \* the object parseFunctionArgs returned: a set of <<key, value>>
    argsDone     \* parseFunctionArgs has returned

argsVars == <<argList, argsString, parsedArgs, argsDone>>

vars == <<regVars, normVars, adapterVars, turnVars, keyVars, retryVars, turnsVars,
          argsVars>>

\* frames: an action of one part leaves the other parts alone
OnlyRegistry == UNCHANGED <<normVars, adapterVars, turnVars, keyVars, retryVars, turnsVars, argsVars>>
OnlyNormalizer == UNCHANGED <<regVars, adapterVars, turnVars, keyVars, retryVars, turnsVars, argsVars>>
OnlyAdapter == UNCHANGED <<regVars, normVars, turnVars, keyVars, retryVars, turnsVars, argsVars>>
OnlyTurn == UNCHANGED <<regVars, normVars, adapterVars, keyVars, retryVars, turnsVars, argsVars>>
OnlyKey == UNCHANGED <<regVars, normVars, adapterVars, turnVars, retryVars, turnsVars, argsVars>>
OnlyRetry == UNCHANGED <<regVars, normVars, adapterVars, turnVars, keyVars, turnsVars, argsVars>>
OnlyTurns == UNCHANGED <<regVars, normVars, adapterVars, turnVars, keyVars, retryVars, argsVars>>
OnlyArgs == UNCHANGED <<regVars, normVars, adapterVars, turnVars, keyVars, retryVars, turnsVars>>

(* ----------------------- Map<string, Client> --------------------------- *)
RECURSIVE IndexOfKey(_, _, _)
IndexOfKey(m, k, i) ==
    IF i > Len(m) THEN 0
    ELSE IF m[i].key = k THEN i ELSE IndexOfKey(m, k, i + 1)

\* this.clients.get(serverKey)
MapGet(m, k) ==
    LET i == IndexOfKey(m, k, 1) IN IF i = 0 THEN None ELSE m[i].sess

\* this.clients.set(serverKey, client): an existing key keeps its position
MapSet(m, k, s) ==
    LET i == IndexOfKey(m, k, 1) IN
    IF i = 0 THEN Append(m, [key |-> k, sess |-> s])
    ELSE [m EXCEPT ![i] = [key |-> k, sess |-> s]]

\* this.clients.delete(serverKey)
MapDelete(m, k) ==
    LET i == IndexOfKey(m, k, 1) IN
    IF i = 0 THEN m
    ELSE SubSeq(m, 1, i - 1) \o SubSeq(m, i + 1, Len(m))

MapSessions(m) == {m[i].sess : i \in 1..Len(m)}
MapKeys(m) == {m[i].key : i \in 1..Len(m)}

\* a live Map iterator after delete(k): entries behind its position shift down
IterAfterDelete(ps, m, k) ==
    LET i == IndexOfKey(m, k, 1) IN
    [q \in Procs |->
        IF i # 0 /\ ps[q].pc = "cleanupClosing" /\ ps[q].it >= i
        THEN [ps[q] EXCEPT !.it = ps[q].it - 1]
        ELSE ps[q]]

(* --------------------------- process records --------------------------- *)
IdleProc == [pc |-> "idle", op |-> "none", key |-> "k1", cli |-> None,
             cid |-> "a", it |-> 0]
NoRet == [op |-> "none", key |-> "k1", cid |-> "a", st |-> "none", sess |-> None]
NoGhost == [dup |-> FALSE, cancelReq |-> FALSE, prevRet |-> None,
            pingFailed |-> FALSE, connected |-> FALSE, raced |-> FALSE,
            released |-> FALSE]
NoAbort == [id |-> "none", ret |-> FALSE]

Outstanding(ps, p) == ps[p].op = "callTool"

\* The service after construction (lines 17-18), or with one session already
\* connected and stored by an earlier initClient.
InitRegPart ==
    /\ clients \in {<<>>, <<[key |-> "k1", sess |-> 1]>>}
    /\ open = MapSessions(clients)
    /\ nextSess = Len(clients) + 1
    /\ activeToolCalls = [c \in CallIds |-> None]
    /\ aborted = [p \in Procs |-> FALSE]
    /\ opCount = 0
    /\ procs = [p \in Procs |-> IdleProc]
    /\ ret = [p \in Procs |-> NoRet]
    /\ ghost = [p \in Procs |-> NoGhost]
    /\ abortRet = NoAbort

Finished(p, st, s) ==
    [op |-> procs[p].op, key |-> procs[p].key, cid |-> procs[p].cid, st |-> st,
     sess |-> s]

(* ------------------------------ initClient ----------------------------- *)
InitClientPrefixNoReuse(pr, k) ==
    [pr EXCEPT !.pc = "connect", !.key = k, !.cli = nextSess]

\* lines 31-48: the synchronous prefix of initClient, up to its first await.
\* Yields the caller's next position: awaiting ping() on the stored client, or
\* awaiting connect() on a newly constructed one.
InitClientPrefix(pr, k) ==
    LET existingClient == MapGet(clients, k) IN
    IF existingClient # None
    THEN [pr EXCEPT !.pc = "ping", !.key = k, !.cli = existingClient]
    ELSE [pr EXCEPT !.pc = "connect", !.key = k, !.cli = nextSess]

FinallyDeleteNothing(atc, id) == atc

\* finally-block of callTool, line 141: this.activeToolCalls.delete(toolCallId)
FinallyDelete(atc, id) == [atc EXCEPT ![id] = None]

\* what the caller of initClient does with the session (callTool, lines 127-142):
\* client.callTool is issued with the controller's signal; a request whose signal
\* is already aborted is rejected at once, and the finally block runs.
AfterAcquire(p, s) ==
    IF procs[p].op = "callTool"
    THEN IF aborted[p]
         THEN /\ procs' = [procs EXCEPT ![p] = IdleProc]
              /\ ret' = [ret EXCEPT ![p] = Finished(p, "fail", None)]
              /\ activeToolCalls' = FinallyDelete(activeToolCalls, procs[p].cid)
         ELSE /\ procs' = [procs EXCEPT ![p].pc = "calling", ![p].cli = s]
              /\ UNCHANGED <<ret, activeToolCalls>>
    ELSE /\ procs' = [procs EXCEPT ![p] = IdleProc]
         /\ ret' = [ret EXCEPT ![p] = Finished(p, "ok", s)]
         /\ UNCHANGED activeToolCalls

\* what the caller of initClient does when it throws
AfterAcquireFailed(p) ==
    /\ procs' = [procs EXCEPT ![p] = IdleProc]
    /\ ret' = [ret EXCEPT ![p] = Finished(p, "fail", None)]
    /\ activeToolCalls' =
         IF procs[p].op = "callTool"
         THEN FinallyDelete(activeToolCalls, procs[p].cid)
         ELSE activeToolCalls

\* an acquisition (initClient, alone or inside callTool) of key k is in flight
Acquiring(q, k) == procs[q].pc \in {"ping", "connect"} /\ procs[q].key = k

\* the key of q's running or last operation
KeyOf(q) == IF procs[q].pc = "idle" THEN ret[q].key ELSE procs[q].key

\* history: a stopServer of a key in ks, or a cleanup (all keys), completes now:
\* the acquisitions of these keys that are in flight were started before it
Overtaken(gh, ks) ==
    [q \in Procs |-> IF \E k \in ks : Acquiring(q, k)
                     THEN [gh[q] EXCEPT !.released = TRUE] ELSE gh[q]]

\* history: an acquisition of key k starts now, after every release so far
Restarted(gh, k) ==
    [q \in Procs |-> IF KeyOf(q) = k
                     THEN [gh[q] EXCEPT !.released = FALSE] ELSE gh[q]]

\* history of an acquisition by p starting now: the session p's immediately
\* preceding operation acquired for the same key (if that was an initClient that
\* returned), and whether another acquisition of the key is in flight
StartGhost(p, k) ==
    [NoGhost EXCEPT
       !.prevRet = IF ret[p].op = "initClient" /\ ret[p].key = k /\ ret[p].st = "ok"
                   THEN ret[p].sess ELSE None,
       !.raced = \E q \in Procs \ {p} : Acquiring(q, k)]

\* the history of the other callers when p starts an acquisition of key k
Raced(p, k) ==
    [q \in Procs |-> IF q # p /\ Acquiring(q, k)
                     THEN [ghost[q] EXCEPT !.raced = TRUE] ELSE ghost[q]]

\* initClient(server) is called directly (restartServer, checkConnectivity, list*)
InitClientStart(p, k) ==
    /\ procs[p].pc = "idle"
    /\ opCount < MaxOps
    /\ LET pr == InitClientPrefix([procs[p] EXCEPT !.op = "initClient"], k) IN
       /\ pr.pc = "connect" => nextSess <= MaxSessions
       /\ procs' = [procs EXCEPT ![p] = pr]
       /\ nextSess' = IF pr.pc = "connect" THEN nextSess + 1 ELSE nextSess
    /\ opCount' = opCount + 1
    /\ ret' = [ret EXCEPT ![p] = NoRet]
    /\ ghost' = [Restarted(Raced(p, k), k) EXCEPT ![p] = StartGhost(p, k)]
    /\ abortRet' = NoAbort
    /\ OnlyRegistry
    /\ UNCHANGED <<clients, activeToolCalls, aborted, open>>

\* lines 37-38: ping() resolved, the stored client is returned
PingOk(p) ==
    /\ procs[p].pc = "ping"
    /\ procs[p].cli \in open
    /\ AfterAcquire(p, procs[p].cli)
    /\ abortRet' = NoAbort
    /\ OnlyRegistry
    /\ UNCHANGED <<clients, aborted, open, nextSess, opCount, ghost>>

PingFailedPropagates(p) ==
    /\ procs[p].pc = "ping"
    /\ AfterAcquireFailed(p)
    /\ abortRet' = NoAbort
    /\ OnlyRegistry
    /\ UNCHANGED <<clients, aborted, open, nextSess, opCount, ghost>>

\* lines 39-48: ping() rejected: the key is deleted, a new Client is constructed
\* and connect() is awaited
PingFailed(p) ==
    /\ procs[p].pc = "ping"
    /\ nextSess <= MaxSessions
    /\ clients' = MapDelete(clients, procs[p].key)
    /\ procs' = [IterAfterDelete(procs, clients, procs[p].key)
                   EXCEPT ![p].pc = "connect", ![p].cli = nextSess]
    /\ nextSess' = nextSess + 1
    /\ ghost' = [ghost EXCEPT ![p].pingFailed = TRUE]
    /\ abortRet' = NoAbort
    /\ OnlyRegistry
    /\ UNCHANGED <<activeToolCalls, aborted, open, opCount, ret>>

\* lines 82-86: connect() resolved, the client is stored and returned
ConnectOk(p) ==
    /\ procs[p].pc = "connect"
    /\ clients' = MapSet(clients, procs[p].key, procs[p].cli)
    /\ open' = open \cup {procs[p].cli}
    /\ ghost' = [ghost EXCEPT ![p].connected = TRUE]
    /\ AfterAcquire(p, procs[p].cli)
    /\ abortRet' = NoAbort
    /\ OnlyRegistry
    /\ UNCHANGED <<aborted, nextSess, opCount>>

\* line 82: connect() rejected (bad command, unreachable URL): initClient throws
ConnectFailed(p) ==
    /\ procs[p].pc = "connect"
    /\ AfterAcquireFailed(p)
    /\ abortRet' = NoAbort
    /\ OnlyRegistry
    /\ UNCHANGED <<clients, aborted, open, nextSess, opCount, ghost>>

(* ------------------------------- callTool ------------------------------ *)
\* line 124: this.activeToolCalls.set(toolCallId, abortController)
Register(atc, id, p) == [atc EXCEPT ![id] = p]

\* lines 122-127: the handle is registered, then initClient runs to its first await
CallToolStart(p, k, id) ==
    /\ procs[p].pc = "idle"
    /\ opCount < MaxOps
    /\ activeToolCalls' = Register(activeToolCalls, id, p)
    /\ aborted' = [aborted EXCEPT ![p] = FALSE]
    /\ LET pr == InitClientPrefix([procs[p] EXCEPT !.op = "callTool", !.cid = id], k) IN
       /\ pr.pc = "connect" => nextSess <= MaxSessions
       /\ procs' = [procs EXCEPT ![p] = pr]
       /\ nextSess' = IF pr.pc = "connect" THEN nextSess + 1 ELSE nextSess
    /\ opCount' = opCount + 1
    /\ ret' = [ret EXCEPT ![p] = NoRet]
    /\ ghost' = [q \in Procs |->
                   IF q = p
                   THEN [StartGhost(p, k) EXCEPT
                           !.prevRet = None,
                           !.dup = \E r \in Procs \ {p} :
                                      Outstanding(procs, r) /\ procs[r].cid = id]
                   ELSE IF Outstanding(procs, q) /\ procs[q].cid = id
                        THEN [Restarted(Raced(p, k), k)[q] EXCEPT !.dup = TRUE]
                        ELSE Restarted(Raced(p, k), k)[q]]
    /\ abortRet' = NoAbort
    /\ OnlyRegistry
    /\ UNCHANGED <<clients, open>>

\* the exits of callTool, lines 136-141: the result is returned or the error is
\* rethrown, and the finally block has run
CallToolExit(p, st) ==
    /\ procs' = [procs EXCEPT ![p] = IdleProc]
    /\ ret' = [ret EXCEPT ![p] = Finished(p, st, None)]
    /\ activeToolCalls' = FinallyDelete(activeToolCalls, procs[p].cid)

\* lines 128-136: client.callTool resolved with the server's payload (isError or
\* not); callTool returns it
ToolReturn(p, isError) ==
    /\ procs[p].pc = "calling"
    /\ ~aborted[p]
    /\ procs[p].cli \in open
    /\ CallToolExit(p, IF isError THEN "isError" ELSE "ok")
    /\ abortRet' = NoAbort
    /\ OnlyRegistry
    /\ UNCHANGED <<clients, aborted, open, nextSess, opCount, ghost>>

\* lines 137-139: client.callTool rejected (timeout, transport failure, abort);
\* callTool rethrows
ToolThrow(p) ==
    /\ procs[p].pc = "calling"
    /\ CallToolExit(p, "fail")
    /\ abortRet' = NoAbort
    /\ OnlyRegistry
    /\ UNCHANGED <<clients, aborted, open, nextSess, opCount, ghost>>

(* ------------------------------- abortTool ----------------------------- *)
AbortToolAlwaysTrue(id) ==
    LET controller == activeToolCalls[id] IN
    /\ opCount < MaxOps
    /\ opCount' = opCount + 1
    /\ abortRet' = [id |-> id, ret |-> TRUE]
    /\ OnlyRegistry
    /\ IF controller # None
       THEN /\ aborted' = [aborted EXCEPT ![controller] = TRUE]
            /\ activeToolCalls' = [activeToolCalls EXCEPT ![id] = None]
       ELSE UNCHANGED <<aborted, activeToolCalls>>
    /\ ghost' = [q \in Procs |->
                   IF Outstanding(procs, q) /\ procs[q].cid = id
                   THEN [ghost[q] EXCEPT !.cancelReq = TRUE] ELSE ghost[q]]
    /\ UNCHANGED <<clients, open, nextSess, procs, ret>>

AbortToolNoSignal(id) ==
    LET controller == activeToolCalls[id] IN
    /\ opCount < MaxOps
    /\ opCount' = opCount + 1
    /\ abortRet' = [id |-> id, ret |-> controller # None]
    /\ OnlyRegistry
    /\ aborted' = aborted
    /\ activeToolCalls' = [activeToolCalls EXCEPT ![id] = None]
    /\ ghost' = [q \in Procs |->
                   IF Outstanding(procs, q) /\ procs[q].cid = id
                   THEN [ghost[q] EXCEPT !.cancelReq = TRUE] ELSE ghost[q]]
    /\ UNCHANGED <<clients, open, nextSess, procs, ret>>

\* lines 236-244
AbortTool(id) ==
    LET controller == activeToolCalls[id] IN
    /\ opCount < MaxOps
    /\ opCount' = opCount + 1
    /\ abortRet' = [id |-> id, ret |-> controller # None]
    /\ OnlyRegistry
    /\ IF controller # None
       THEN /\ aborted' = [aborted EXCEPT ![controller] = TRUE]
            /\ activeToolCalls' = [activeToolCalls EXCEPT ![id] = None]
       ELSE UNCHANGED <<aborted, activeToolCalls>>
    /\ ghost' = [q \in Procs |->
                   IF Outstanding(procs, q) /\ procs[q].cid = id
                   THEN [ghost[q] EXCEPT !.cancelReq = TRUE] ELSE ghost[q]]
    /\ UNCHANGED <<clients, open, nextSess, procs, ret>>

(* ------------------------ stopServer and cleanup ----------------------- *)
\* lines 207-210: no client stored: returns; otherwise close() is awaited
StopServerStart(p, k) ==
    /\ procs[p].pc = "idle"
    /\ opCount < MaxOps
    /\ opCount' = opCount + 1
    /\ LET client == MapGet(clients, k) IN
       IF client # None
       THEN /\ procs' = [procs EXCEPT ![p] = [@ EXCEPT !.pc = "closing",
                            !.op = "stopServer", !.key = k, !.cli = client]]
            /\ ret' = [ret EXCEPT ![p] = NoRet]
       ELSE /\ procs' = [procs EXCEPT ![p] = IdleProc]
            /\ ret' = [ret EXCEPT ![p] =
                         [NoRet EXCEPT !.op = "stopServer", !.key = k, !.st = "ok"]]
    /\ ghost' = [(IF MapGet(clients, k) = None THEN Overtaken(ghost, {k}) ELSE ghost)
                   EXCEPT ![p] = NoGhost]
    /\ abortRet' = NoAbort
    /\ OnlyRegistry
    /\ UNCHANGED <<clients, activeToolCalls, aborted, open, nextSess>>

\* lines 210-212: close() resolved, the key is deleted
StopServerClosed(p) ==
    /\ procs[p].pc = "closing"
    /\ open' = open \ {procs[p].cli}
    /\ clients' = MapDelete(clients, procs[p].key)
    /\ procs' = [IterAfterDelete(procs, clients, procs[p].key) EXCEPT ![p] = IdleProc]
    /\ ret' = [ret EXCEPT ![p] = Finished(p, "ok", None)]
    /\ ghost' = Overtaken(ghost, {procs[p].key})
    /\ abortRet' = NoAbort
    /\ OnlyRegistry
    /\ UNCHANGED <<activeToolCalls, aborted, nextSess, opCount>>

\* line 210: close() rejected: stopServer throws before the delete
StopServerCloseFailed(p) ==
    /\ procs[p].pc = "closing"
    /\ procs' = [procs EXCEPT ![p] = IdleProc]
    /\ ret' = [ret EXCEPT ![p] = Finished(p, "fail", None)]
    /\ abortRet' = NoAbort
    /\ OnlyRegistry
    /\ UNCHANGED <<clients, activeToolCalls, aborted, open, nextSess, opCount, ghost>>

\* lines 247-254: the loop head after n entries: close() of the next entry is
\* awaited, or the iterator is exhausted, the map is cleared and cleanup returns
CleanupAdvance(ps, p, n) ==
    IF n < Len(clients)
    THEN [ps EXCEPT ![p] = [@ EXCEPT !.pc = "cleanupClosing", !.op = "cleanup",
                              !.it = n + 1, !.cli = clients[n + 1].sess]]
    ELSE [q \in Procs |->
            IF q = p THEN IdleProc
            ELSE IF ps[q].pc = "cleanupClosing" THEN [ps[q] EXCEPT !.it = 0]
            ELSE ps[q]]

CleanupDone == [NoRet EXCEPT !.op = "cleanup", !.st = "ok"]

CleanupStart(p) ==
    /\ procs[p].pc = "idle"
    /\ opCount < MaxOps
    /\ opCount' = opCount + 1
    /\ procs' = CleanupAdvance(procs, p, 0)
    /\ ret' = [ret EXCEPT ![p] = IF Len(clients) = 0 THEN CleanupDone ELSE NoRet]
    /\ ghost' = [(IF Len(clients) = 0 THEN Overtaken(ghost, Keys) ELSE ghost)
                   EXCEPT ![p] = NoGhost]
    /\ abortRet' = NoAbort
    /\ OnlyRegistry
    /\ UNCHANGED <<clients, activeToolCalls, aborted, open, nextSess>>

\* close() rejected and the rejection leaves cleanup
CleanupClosedThrows(p, closed) ==
    /\ procs[p].pc = "cleanupClosing"
    /\ open' = IF closed THEN open \ {procs[p].cli} ELSE open
    /\ procs' = IF closed THEN CleanupAdvance(procs, p, procs[p].it)
                ELSE [procs EXCEPT ![p] = IdleProc]
    /\ clients' = IF closed /\ procs[p].it >= Len(clients) THEN <<>> ELSE clients
    /\ ret' = [ret EXCEPT ![p] =
                 IF ~closed THEN [NoRet EXCEPT !.op = "cleanup", !.st = "fail"]
                 ELSE IF procs[p].it < Len(clients) THEN NoRet ELSE CleanupDone]
    /\ ghost' = IF closed /\ procs[p].it >= Len(clients)
                THEN Overtaken(ghost, Keys) ELSE ghost
    /\ abortRet' = NoAbort
    /\ OnlyRegistry
    /\ UNCHANGED <<activeToolCalls, aborted, nextSess, opCount>>

\* lines 248-254: close() settled (resolved, or rejected and logged); the loop
\* goes on, and after the last entry the map is cleared
CleanupClosed(p, closed) ==
    /\ procs[p].pc = "cleanupClosing"
    /\ open' = IF closed THEN open \ {procs[p].cli} ELSE open
    /\ procs' = CleanupAdvance(procs, p, procs[p].it)
    /\ clients' = IF procs[p].it < Len(clients) THEN clients ELSE <<>>
    /\ ret' = [ret EXCEPT ![p] = IF procs[p].it < Len(clients)
                                 THEN NoRet ELSE CleanupDone]
    /\ ghost' = IF procs[p].it < Len(clients) THEN ghost ELSE Overtaken(ghost, Keys)
    /\ abortRet' = NoAbort
    /\ OnlyRegistry
    /\ UNCHANGED <<activeToolCalls, aborted, nextSess, opCount>>

(* ------------------------------ next-state ----------------------------- *)
ProcNext(p) ==
    \/ \E k \in Keys : InitClientStart(p, k)
    \/ PingOk(p)
    \/ PingFailed(p)
    \/ ConnectOk(p)
    \/ ConnectFailed(p)
    \/ \E k \in Keys, id \in CallIds : CallToolStart(p, k, id)
    \/ \E e \in BOOLEAN : ToolReturn(p, e)
    \/ ToolThrow(p)
    \/ \E k \in Keys : StopServerStart(p, k)
    \/ StopServerClosed(p)
    \/ StopServerCloseFailed(p)
    \/ CleanupStart(p)
    \/ \E c \in BOOLEAN : CleanupClosed(p, c)

\* abortTool is an IPC handler without an await: it runs between any two steps
EnvNext == \E id \in CallIds : AbortTool(id)

NextReg == (\E p \in Procs : ProcNext(p)) \/ EnvNext

\* one caller: every operation is awaited before the next one is started
NextSeq == ProcNext(1) \/ EnvNext


(***************************************************************************)
(* Part II: ToolProcessor.processToolCalls                                 *)
(*                                                                         *)
(* A string is a sequence of tokens: the four span tags, the two marker    *)
(* tag pairs, span bodies, plain text, and the replacement patterns that   *)
(* String.prototype.replace expands.                                       *)
(***************************************************************************)
\* segments (plain text or one span) of a model output
MaxSegs == 3
MaxCodeSegs == 2

TcOpen == "<tool_call>"
TcClose == "</tool_call>"
CodeOpen == "<tool_code>"
CodeClose == "</tool_code>"
ResOpen == "<tool_result>"
ResClose == "</tool_result>"
ErrOpen == "<tool_error>"
ErrClose == "</tool_error>"

\* relevantServers, in order, and the tools each lists
RelevantServers == <<"s1", "s2">>
ServerTools == [srv \in {"s1", "s2"} |->
                  IF srv = "s1" THEN {"t1", "f1"} ELSE {"t2", "f1"}]

\* JSON.parse on a span body: the objects the bodies used here denote
JsonTokens == {"{s1,t1}", "{s9,t1}"}
ParseJson(tok) ==
    IF tok = "{s1,t1}" THEN [serverId |-> "s1", name |-> "t1"]
    ELSE [serverId |-> "s9", name |-> "t1"]

\* /(\w+)\(([^)]*)\)/g on a code body: the function calls, and their names
CallTokens == {"f1()", "f9()"}
FunctionName(tok) == IF tok = "f1()" THEN "f1" ELSE "f9"

\* /print\((.+)\)/ on a code body whose tokens are its lines: the statements
\* the pattern matches, and the text it captures
PrintTokens == {"print(f1())", "print(x)"}
PrintInner(tok) == IF tok = "print(f1())" THEN <<"f1()">> ELSE <<"x">>

\* payloads a tool returns (the text of JSON.stringify(toolResult, null, 2));
\* <<"isError">> is a payload whose isError flag is set
ToolResults == {<<"r">>, <<"\"">>, <<"$&">>, <<"$'">>, <<"isError">>}
IsErrorPayload(payload) == payload = <<"isError">>

CallSpan(body) == <<TcOpen>> \o body \o <<TcClose>>
CodeSpan(body) == <<CodeOpen>> \o body \o <<CodeClose>>

Segments ==
    { <<"x">>,
      CallSpan(<<"{s1,t1}">>), CallSpan(<<"{s9,t1}">>), CallSpan(<<"junk">>),
      CallSpan(<<"junk", "{s1,t1}">>),
      CodeSpan(<<"f1()">>), CodeSpan(<<"f9()">>), CodeSpan(<<"junk">>) }

RECURSIVE Flatten(_)
Flatten(ss) == IF ss = <<>> THEN <<>> ELSE Head(ss) \o Flatten(Tail(ss))

\* the model outputs processed: up to MaxSegs segments
Inputs ==
    UNION { {Flatten(ss) : ss \in [1..n -> Segments]} : n \in 1..MaxSegs }

\* model outputs with the code bodies processCodeToolCall distinguishes: one
\* call, several calls, a print() around a call, a print() after a call
CodeSegments ==
    { <<"x">>, CallSpan(<<"{s1,t1}">>), CallSpan(<<"{s9,t1}">>),
      CodeSpan(<<"f1()">>), CodeSpan(<<"f9()">>), CodeSpan(<<"f9()", "f1()">>),
      CodeSpan(<<"print(f1())">>), CodeSpan(<<"f1()", "print(x)">>) }

CodeInputs ==
    UNION { {Flatten(ss) : ss \in [1..n -> CodeSegments]} : n \in 1..MaxCodeSegs }

(* --------------------------- string primitives ------------------------- *)
RECURSIVE FindFrom(_, _, _)
\* first index >= i of token tok in s, or 0
FindFrom(s, tok, i) ==
    IF i > Len(s) THEN 0
    ELSE IF s[i] = tok THEN i ELSE FindFrom(s, tok, i + 1)

RECURSIVE MatchAll(_, _, _, _)
\* s.match(/<open>(.*?)<close>/gs): leftmost, non-greedy, non-overlapping
MatchAll(s, openTag, closeTag, i) ==
    LET a == FindFrom(s, openTag, i)
        b == IF a = 0 THEN 0 ELSE FindFrom(s, closeTag, a + 1) IN
    IF a = 0 \/ b = 0 THEN <<>>
    ELSE <<[start |-> a, end |-> b]>> \o MatchAll(s, openTag, closeTag, b + 1)

MatchText(s, m) == SubSeq(s, m.start, m.end)

RECURSIVE IndexOfSub(_, _, _)
\* s.indexOf(m), 1-based, searching from i; 0 if m does not occur
IndexOfSub(s, m, i) ==
    IF i + Len(m) - 1 > Len(s) THEN 0
    ELSE IF SubSeq(s, i, i + Len(m) - 1) = m THEN i
    ELSE IndexOfSub(s, m, i + 1)

RECURSIVE Expand(_, _, _, _)
\* the replacement patterns of String.prototype.replace with a string pattern:
\* $& is the matched text, $' the text after the match
Expand(r, before, m, after) ==
    IF r = <<>> THEN <<>>
    ELSE (IF Head(r) = "$&" THEN m
          ELSE IF Head(r) = "$'" THEN after
          ELSE <<Head(r)>>) \o Expand(Tail(r), before, m, after)

\* s.replace(m, r) with strings m and r: the first occurrence of m is replaced
\* by r with its patterns expanded
StringReplace(s, m, r) ==
    LET i == IndexOfSub(s, m, 1) IN
    IF i = 0 THEN s
    ELSE LET before == SubSeq(s, 1, i - 1)
             after == SubSeq(s, i + Len(m), Len(s)) IN
         before \o Expand(r, before, m, after) \o after

\* JSON.stringify of a payload: a double quote is escaped, other text
\* ($ included) is kept as it is
Escape(tok) == IF tok = "\"" THEN "\\\"" ELSE tok
Stringify(payload) == [i \in 1..Len(payload) |-> Escape(payload[i])]

ResultMarker(payload) == <<ResOpen>> \o Stringify(payload) \o <<ResClose>>
ErrorMarker(text) == <<ErrOpen>> \o text \o <<ErrClose>>

(* ----------------------------- span parsing ---------------------------- *)
\* line 60 / line 126: the body of a span
BodyOf(span) == SubSeq(span, 2, Len(span) - 1)

JsonIndices(body) == {i \in 1..Len(body) : body[i] \in JsonTokens}

\* lines 63-78: JSON.parse(toolData), else JSON.parse of the text from the first
\* "{" to the last "}". Yields [ok, data] or [ok = FALSE, message].
ParseToolData(body) ==
    IF Len(body) = 1 /\ body[1] \in JsonTokens
    THEN [ok |-> TRUE, data |-> ParseJson(body[1]), message |-> <<>>]
    ELSE LET js == JsonIndices(body) IN
         IF js = {}
         THEN [ok |-> FALSE, data |-> ParseJson("{s9,t1}"),
               message |-> <<"No valid JSON found in tool call data: ">>
                           \o body \o <<"...">>]
         ELSE LET lo == CHOOSE i \in js : \A j \in js : i <= j
                  hi == CHOOSE i \in js : \A j \in js : i >= j IN
              IF lo = hi
              THEN [ok |-> TRUE, data |-> ParseJson(body[lo]), message |-> <<>>]
              ELSE [ok |-> FALSE, data |-> ParseJson("{s9,t1}"),
                    message |-> <<"Unexpected token in JSON">>]

\* a lookup that takes every named server as relevant
FindServerAny(serverId) == serverId = serverId

\* line 83: relevantServers.find(s => s.id === serverId)
FindServer(serverId) ==
    \E i \in 1..Len(RelevantServers) : RelevantServers[i] = serverId

\* lines 137-138, 143-144: matchAll of the function-call pattern on a text:
\* the names of the calls, in order of appearance
RECURSIVE CallsIn(_)
CallsIn(text) ==
    IF text = <<>> THEN <<>>
    ELSE (IF Head(text) \in CallTokens THEN <<FunctionName(Head(text))>> ELSE <<>>)
         \o CallsIn(Tail(text))

\* lines 130-147: functionMatches. When the print pattern matches anywhere in
\* the body, only the calls inside the text it captured (of its first match);
\* otherwise the calls of the whole body
FunctionsOf(body) ==
    LET prints == {i \in 1..Len(body) : body[i] \in PrintTokens} IN
    IF prints # {}
    THEN CallsIn(PrintInner(body[CHOOSE i \in prints : \A j \in prints : i <= j]))
    ELSE CallsIn(body)

(* ------------------------------ the loops ------------------------------ *)
CurrentMatch ==
    IF npc \in {"call", "awaitJson"} THEN toolCallMatches[mi] ELSE toolCodeMatches[mi]

CurrentSpan == MatchText(response, CurrentMatch)

\* lines 20-21, 37-38, 53: the loop heads. After match number i of the given
\* phase (0 of "start" on entry): the next <tool_call> match, else the first or
\* next <tool_code> match, else return.
AfterMatchTextual(phase, i) ==
    LET pos == IF phase = "call" THEN toolCallMatches[i].start
               ELSE IF phase = "code" THEN toolCodeMatches[i].start ELSE 0
        cands == {[npc |-> "call", mi |-> k, at |-> toolCallMatches[k].start] :
                     k \in 1..Len(toolCallMatches)}
                 \cup {[npc |-> "code", mi |-> k, at |-> toolCodeMatches[k].start] :
                     k \in 1..Len(toolCodeMatches)}
        later == {c \in cands : c.at > pos} IN
    IF later = {} THEN [npc |-> "done", mi |-> 0]
    ELSE LET c == CHOOSE c \in later : \A d \in later : c.at <= d.at IN
         [npc |-> c.npc, mi |-> c.mi]

AfterMatch(phase, i) ==
    IF phase \in {"start", "call"} /\ i < Len(toolCallMatches)
    THEN [npc |-> "call", mi |-> i + 1]
    ELSE IF phase \in {"start", "call"} /\ Len(toolCodeMatches) > 0
    THEN [npc |-> "code", mi |-> 1]
    ELSE IF phase = "code" /\ i < Len(toolCodeMatches)
    THEN [npc |-> "code", mi |-> i + 1]
    ELSE [npc |-> "done", mi |-> 0]

\* processToolCalls is entered with a model output: lines 10-17
Entered ==
    /\ toolCallMatches = MatchAll(response, TcOpen, TcClose, 1)
    /\ toolCodeMatches = MatchAll(response, CodeOpen, CodeClose, 1)
    /\ processedResponse = response
    /\ toolCalls = <<>>
    /\ LET first == AfterMatch("start", 0) IN npc = first.npc /\ mi = first.mi
    /\ fi = 1
    /\ si = 1
    /\ inflight = <<>>
    /\ dispatched = <<>>
    /\ settled = 0

InitNormPart == response \in Inputs /\ Entered

\* processToolCalls is entered with an output whose code spans hold several
\* statements or a print() call
InitCodePart == response \in CodeInputs /\ Entered

\* no processToolCalls call is running
NormIdle ==
    /\ response = <<>> /\ toolCallMatches = <<>> /\ toolCodeMatches = <<>>
    /\ processedResponse = <<>> /\ toolCalls = <<>> /\ npc = "done" /\ mi = 0
    /\ fi = 1 /\ si = 1 /\ inflight = <<>> /\ dispatched = <<>> /\ settled = 0

\* lines 27, 31, 44, 48: the span is substituted and the loop goes on
Substitute(phase, replacement) ==
    /\ processedResponse' = StringReplace(processedResponse, CurrentSpan, replacement)
    /\ LET nx == AfterMatch(phase, mi) IN npc' = nx.npc /\ mi' = nx.mi
    /\ fi' = 1
    /\ si' = 1

Dispatch(kind, server, name) ==
    /\ inflight' = <<[kind |-> kind, server |-> server, name |-> name]>>
    /\ dispatched' = Append(dispatched,
                            [kind |-> kind, at |-> CurrentMatch.start,
                             server |-> server, name |-> name])

Settle ==
    /\ inflight' = <<>>
    /\ settled' = settled + 1

\* lines 64-86 and 28-32: the body does not parse, or names no relevant server:
\* processJsonToolCall throws, the span becomes an error marker, no record
JsonRejected ==
    /\ npc = "call"
    /\ LET parsed == ParseToolData(BodyOf(CurrentSpan)) IN
       /\ ~parsed.ok \/ ~FindServer(parsed.data.serverId)
       /\ Substitute("call",
            ErrorMarker(IF ~parsed.ok THEN parsed.message
                        ELSE <<"Server '", parsed.data.serverId, "' not found">>))
    /\ UNCHANGED <<response, toolCallMatches, toolCodeMatches, toolCalls, inflight,
                   dispatched, settled>>
    /\ OnlyNormalizer

\* lines 80-94: the tool is invoked on the named server
JsonDispatch ==
    /\ npc = "call"
    /\ LET parsed == ParseToolData(BodyOf(CurrentSpan)) IN
       /\ parsed.ok /\ FindServer(parsed.data.serverId)
       /\ Dispatch("call", parsed.data.serverId, parsed.data.name)
    /\ npc' = "awaitJson"
    /\ UNCHANGED <<response, toolCallMatches, toolCodeMatches, processedResponse,
                   toolCalls, mi, fi, si, settled>>
    /\ OnlyNormalizer

\* lines 90-119 and 24-27: callTool returned: one record, a result marker
JsonToolResult(payload) ==
    /\ npc = "awaitJson"
    /\ toolCalls' = Append(toolCalls,
                       [id |-> "tool", at |-> CurrentMatch.start,
                        serverId |-> inflight[1].server, name |-> inflight[1].name,
                        result |-> payload])
    /\ Substitute("call", ResultMarker(payload))
    /\ Settle
    /\ UNCHANGED <<response, toolCallMatches, toolCodeMatches, dispatched>>
    /\ OnlyNormalizer

\* lines 90 and 28-32: callTool threw: an error marker, no record
JsonToolThrow ==
    /\ npc = "awaitJson"
    /\ Substitute("call", ErrorMarker(<<"tool failed">>))
    /\ Settle
    /\ UNCHANGED <<response, toolCallMatches, toolCodeMatches, toolCalls, dispatched>>
    /\ OnlyNormalizer

\* lines 150-198 and 45-49: the loops of processCodeToolCall go on with the next
\* server, else with the next function; when both are exhausted the call throws
\* "Tool not found in any active server" and the span becomes an error marker
CodeContinue ==
    LET functionMatches == FunctionsOf(BodyOf(CurrentSpan)) IN
    IF fi <= Len(functionMatches) /\ si < Len(RelevantServers)
    THEN /\ npc' = "code" /\ si' = si + 1
         /\ UNCHANGED <<processedResponse, mi, fi>>
    ELSE IF fi < Len(functionMatches)
    THEN /\ npc' = "code" /\ fi' = fi + 1 /\ si' = 1
         /\ UNCHANGED <<processedResponse, mi>>
    ELSE Substitute("code", ErrorMarker(<<"Tool not found in any active server">>))

\* line 150: the body holds no function call
CodeNoFunction ==
    /\ npc = "code"
    /\ FunctionsOf(BodyOf(CurrentSpan)) = <<>>
    /\ CodeContinue
    /\ UNCHANGED <<response, toolCallMatches, toolCodeMatches, toolCalls, inflight,
                   dispatched, settled>>
    /\ OnlyNormalizer

\* lines 165-168: listTools(server) returned (the server's tools, or [] when it
\* failed): the function is not among them
CodeToolNotListed(listed) ==
    /\ npc = "code"
    /\ LET functionMatches == FunctionsOf(BodyOf(CurrentSpan)) IN
       /\ functionMatches # <<>>
       /\ ~(listed /\ functionMatches[fi] \in ServerTools[RelevantServers[si]])
    /\ CodeContinue
    /\ UNCHANGED <<response, toolCallMatches, toolCodeMatches, toolCalls, inflight,
                   dispatched, settled>>
    /\ OnlyNormalizer

\* lines 165-175: listTools(server) returned the function's tool: it is invoked
CodeDispatch ==
    /\ npc = "code"
    /\ LET functionMatches == FunctionsOf(BodyOf(CurrentSpan)) IN
       /\ functionMatches # <<>>
       /\ functionMatches[fi] \in ServerTools[RelevantServers[si]]
       /\ Dispatch("code", RelevantServers[si], functionMatches[fi])
    /\ npc' = "awaitCode"
    /\ UNCHANGED <<response, toolCallMatches, toolCodeMatches, processedResponse,
                   toolCalls, mi, fi, si, settled>>
    /\ OnlyNormalizer

\* lines 171-189 and 41-44: callTool returned: one record, a result marker
CodeToolResult(payload) ==
    /\ npc = "awaitCode"
    /\ toolCalls' = Append(toolCalls,
                       [id |-> "tool-code", at |-> CurrentMatch.start,
                        serverId |-> inflight[1].server, name |-> inflight[1].name,
                        result |-> payload])
    /\ Substitute("code", ResultMarker(payload))
    /\ Settle
    /\ UNCHANGED <<response, toolCallMatches, toolCodeMatches, dispatched>>
    /\ OnlyNormalizer

\* lines 171 and 191-193: callTool threw inside the server loop: the error is
\* logged and the loops go on
CodeToolThrow ==
    /\ npc = "awaitCode"
    /\ CodeContinue
    /\ Settle
    /\ UNCHANGED <<response, toolCallMatches, toolCodeMatches, toolCalls, dispatched>>
    /\ OnlyNormalizer

NextNorm ==
    \/ JsonRejected
    \/ JsonDispatch
    \/ \E payload \in ToolResults : JsonToolResult(payload)
    \/ JsonToolThrow
    \/ CodeNoFunction
    \/ \E listed \in BOOLEAN : CodeToolNotListed(listed)
    \/ CodeDispatch
    \/ \E payload \in ToolResults : CodeToolResult(payload)
    \/ CodeToolThrow

(***************************************************************************)
(* Part III: generateResponseWithTools of the native adapters              *)
(***************************************************************************)
\* tool calls in one vendor response
MaxToolCalls == 2
\* this.config.maxRetries
maxRetries == 3

\* "openai" is the definition at OpenAIProvider.ts 5-171, "openai2" the one at
\* 176-393
Providers == {"openai", "openai2", "deepseek", "anthropic", "gemini"}
OpenAIFamily == {"openai", "openai2", "deepseek"}

\* the tools argument (name -> serverId) and the ids of the servers argument:
\* t2 belongs to a server that is not among the servers, tx is no tool at all
CatalogTools == {"t1", "t2"}
ToolServer(name) == IF name = "t1" THEN "s1" ELSE "s9"
ServerIds == {"s1", "s2"}
CalledNames == {"t1", "t2", "tx"}

\* the tool calls a vendor response may hold
VendorResponses == UNION {[1..n -> CalledNames] : n \in 0..MaxToolCalls}

\* tools.find((t) => t.name === toolName), servers.find((s) => s.id === tool.serverId),
\* tool && server
Resolved(name) == name \in CatalogTools /\ ToolServer(name) \in ServerIds

NoResult == [kind |-> "none", success |-> FALSE, toolCalls |-> <<>>, response |-> <<>>]
NoMark == [followUps |-> 0, invocations |-> 0]

\* texts a first-pass response may hold: plain, an opening tag without a span,
\* a <tool_code> span, a <tool_call> span
FirstTexts ==
    { <<"x">>, <<"x", CodeOpen>>, <<"x">> \o CodeSpan(<<"f1()">>),
      CallSpan(<<"{s1,t1}">>) \o <<"x">> }

\* finalResponse.includes("<tool_code>") || finalResponse.includes("<tool_call>")
HasToolTag(text) == \E i \in 1..Len(text) : text[i] \in {CodeOpen, TcOpen}

\* the spans processToolCalls recognizes in text
SpansIn(text) ==
    Len(MatchAll(text, TcOpen, TcClose, 1)) + Len(MatchAll(text, CodeOpen, CodeClose, 1))

\* processedResponse of processToolCalls(text): text itself when it holds no
\* span, else text with its spans substituted (Part II)
Processed(text) == IF SpansIn(text) = 0 THEN text ELSE <<"processedResponse">>

\* Gemini: the note appended to finalResponse for an unresolved function call
UnresolvedNote == <<"*Note: not found*">>
\* the text of a follow-up completion
FollowUpText == <<"follow-up text">>

\* a record with result (the payload callTool returned, whose isError flag may
\* be set) and a record with error (the message of what callTool threw)
ResultRecord(i, name, isError) ==
    [id |-> i, name |-> name, st |-> "result", isError |-> isError]
ErrorRecord(i, name) == [id |-> i, name |-> name, st |-> "error", isError |-> FALSE]

InitAdapterPart ==
    /\ provider \in Providers
    /\ attempt = 1
    /\ apc = "first"
    /\ message = <<>>
    /\ ti = 1
    /\ executedToolCalls = <<>>
    /\ followUps = 0
    /\ followUpEntries = <<>>
    /\ invocations = 0
    /\ result = NoResult
    /\ firstText = <<>>
    /\ finalResponse = <<>>
    /\ mark = NoMark

\* no turn is running
AdapterIdle ==
    /\ provider = "none" /\ attempt = 1 /\ apc = "done" /\ message = <<>> /\ ti = 1
    /\ executedToolCalls = <<>> /\ followUps = 0 /\ followUpEntries = <<>>
    /\ invocations = 0 /\ result = NoResult
    /\ firstText = <<>> /\ finalResponse = <<>> /\ mark = NoMark

\* the condition under which the follow-up completion is requested
FollowUpNeededAlways(calls, executed) == TRUE

FollowUpNeeded(calls, executed) ==
    IF provider \in OpenAIFamily THEN Len(calls) > 0 ELSE Len(executed) > 0

Return(executed, text) ==
    /\ apc' = "done"
    /\ result' = [kind |-> "returned", success |-> TRUE, toolCalls |-> executed,
                  response |-> text]

\* the tool-call loop goes on at index i with the records made so far and
\* finalResponse text; after the last tool call the follow-up is requested, or
\* (Gemini, no record, text with a tool tag) the text goes to processToolCalls,
\* or the turn returns
Continue(calls, i, executed, text) ==
    /\ ti' = i
    /\ executedToolCalls' = executed
    /\ finalResponse' = text
    /\ IF i <= Len(calls)
       THEN /\ apc' = "loop"
            /\ UNCHANGED <<followUps, followUpEntries, result>>
       ELSE IF FollowUpNeeded(calls, executed)
       THEN /\ apc' = "followup"
            /\ followUps' = followUps + 1
            /\ followUpEntries' = [k \in 1..Len(executed) |-> executed[k].id]
            /\ UNCHANGED result
       ELSE IF provider = "gemini" /\ executed = <<>> /\ HasToolTag(text)
       THEN /\ apc' = "tags"
            /\ UNCHANGED <<followUps, followUpEntries, result>>
       ELSE /\ Return(executed, text)
            /\ UNCHANGED <<followUps, followUpEntries>>

\* the outer catch of generateResponseWithTools
CaughtSuccess(p) == p = "openai2"

Caught ==
    [kind |-> "caught", success |-> CaughtSuccess(provider), toolCalls |-> <<>>,
     response |-> <<"error message">>]

\* withRetry, lines 59-71: the operation threw
OperationThrew ==
    IF attempt < maxRetries
    THEN apc' = "backoff" /\ UNCHANGED result
    ELSE apc' = "done" /\ result' = Caught

\* the first-pass completion returns a message with text text and tool calls calls
FirstPassReturns(calls, text) ==
    /\ apc = "first"
    /\ message' = calls
    /\ firstText' = text
    /\ mark' = [followUps |-> followUps, invocations |-> invocations]
    /\ Continue(calls, 1, <<>>, text)
    /\ UNCHANGED <<provider, attempt, invocations>>
    /\ OnlyAdapter

\* the first-pass completion holds no message / no candidate
FirstPassEmpty ==
    /\ apc = "first"
    /\ provider \in OpenAIFamily \cup {"gemini"}
    /\ apc' = "done"
    /\ result' = [kind |-> "returned", success |-> FALSE, toolCalls |-> <<>>,
                  response |-> <<>>]
    /\ UNCHANGED <<provider, attempt, message, ti, executedToolCalls, followUps,
                   followUpEntries, invocations, firstText, finalResponse, mark>>
    /\ OnlyAdapter

\* the first-pass completion fails
FirstPassThrows ==
    /\ apc = "first"
    /\ OperationThrew
    /\ UNCHANGED <<provider, attempt, message, ti, executedToolCalls, followUps,
                   followUpEntries, invocations, firstText, finalResponse, mark>>
    /\ OnlyAdapter

\* JSON.parse(toolCall.function.arguments) throws: the catch pushes an error record
ArgumentsRejected ==
    /\ apc = "loop"
    /\ provider \in OpenAIFamily
    /\ Continue(message, ti + 1,
                Append(executedToolCalls, ErrorRecord(ti, message[ti])),
                finalResponse)
    /\ UNCHANGED <<provider, attempt, message, invocations, firstText, mark>>
    /\ OnlyAdapter

\* tool && server is false: Gemini pushes an error record and appends a note to
\* the text, the other adapters go on to the next tool call
Unresolved ==
    /\ apc = "loop"
    /\ ~Resolved(message[ti])
    /\ IF provider = "gemini"
       THEN Continue(message, ti + 1,
                     Append(executedToolCalls, ErrorRecord(ti, message[ti])),
                     finalResponse \o UnresolvedNote)
       ELSE Continue(message, ti + 1, executedToolCalls, finalResponse)
    /\ UNCHANGED <<provider, attempt, message, invocations, firstText, mark>>
    /\ OnlyAdapter

\* tool && server: mcpService.callTool is called
Invoke ==
    /\ apc = "loop"
    /\ Resolved(message[ti])
    /\ apc' = "calling"
    /\ invocations' = invocations + 1
    /\ UNCHANGED <<provider, attempt, message, ti, executedToolCalls, followUps,
                   followUpEntries, result, firstText, finalResponse, mark>>
    /\ OnlyAdapter

\* callTool returned a payload, with isError set or not: a record with result
InvokeReturns(isError) ==
    /\ apc = "calling"
    /\ Continue(message, ti + 1,
                Append(executedToolCalls, ResultRecord(ti, message[ti], isError)),
                finalResponse)
    /\ UNCHANGED <<provider, attempt, message, invocations, firstText, mark>>
    /\ OnlyAdapter

\* callTool threw and the same tool call is tried again
InvokeThrowsRetries ==
    /\ apc = "calling"
    /\ apc' = "loop"
    /\ UNCHANGED <<provider, attempt, message, ti, executedToolCalls, followUps,
                   followUpEntries, invocations, result, firstText, finalResponse,
                   mark>>
    /\ OnlyAdapter

\* callTool threw: the catch pushes a record with error
InvokeThrows ==
    /\ apc = "calling"
    /\ Continue(message, ti + 1,
                Append(executedToolCalls, ErrorRecord(ti, message[ti])),
                finalResponse)
    /\ UNCHANGED <<provider, attempt, message, invocations, firstText, mark>>
    /\ OnlyAdapter

\* the follow-up completion returns, with a text or without one (then
\* finalResponse is kept): the turn returns its records
FollowUpReturns(hasText) ==
    /\ apc = "followup"
    /\ finalResponse' = IF hasText THEN FollowUpText ELSE finalResponse
    /\ Return(executedToolCalls, finalResponse')
    /\ UNCHANGED <<provider, attempt, message, ti, executedToolCalls, followUps,
                   followUpEntries, invocations, firstText, mark>>
    /\ OnlyAdapter

\* the follow-up completion fails
FollowUpThrows ==
    /\ apc = "followup"
    /\ OperationThrew
    /\ UNCHANGED <<provider, attempt, message, ti, executedToolCalls, followUps,
                   followUpEntries, invocations, firstText, finalResponse, mark>>
    /\ OnlyAdapter

\* GeminiProvider lines 258-274: no record was made and the text holds
\* <tool_call> or <tool_code>: it goes through processToolCalls, which invokes
\* the tools of its spans; n of them produce a record
GeminiToolTags(n) ==
    /\ apc = "tags"
    /\ n <= SpansIn(finalResponse)
    /\ invocations' = invocations + n
    /\ finalResponse' = Processed(finalResponse)
    /\ executedToolCalls' = [k \in 1..n |-> ResultRecord(k, "t1", FALSE)]
    /\ Return(executedToolCalls', finalResponse')
    /\ UNCHANGED <<provider, attempt, message, ti, followUps, followUpEntries,
                   firstText, mark>>
    /\ OnlyAdapter

\* withRetry, lines 63-67 and 56-58: after the delay the operation runs again
Backoff ==
    /\ apc = "backoff"
    /\ attempt' = attempt + 1
    /\ apc' = "first"
    /\ message' = <<>>
    /\ ti' = 1
    /\ executedToolCalls' = <<>>
    /\ followUpEntries' = <<>>
    /\ firstText' = <<>>
    /\ finalResponse' = <<>>
    /\ UNCHANGED <<provider, followUps, invocations, result, mark>>
    /\ OnlyAdapter

NextAdapter ==
    \/ \E calls \in VendorResponses, text \in FirstTexts : FirstPassReturns(calls, text)
    \/ FirstPassEmpty
    \/ FirstPassThrows
    \/ ArgumentsRejected
    \/ Unresolved
    \/ Invoke
    \/ \E isError \in BOOLEAN : InvokeReturns(isError)
    \/ InvokeThrows
    \/ \E hasText \in BOOLEAN : FollowUpReturns(hasText)
    \/ FollowUpThrows
    \/ \E n \in 0..MaxToolCalls : GeminiToolTags(n)
    \/ Backoff

(***************************************************************************)
(* Part IV: AIService.generateResponseWithTools                            *)
(***************************************************************************)
\* servers configured in one AIService
MaxServers == 2

\* serverIds is undefined
Absent == {"undefined"}

\* provider ids with a client (ProviderFactory.create); no client exists for
\* "unknown"
TurnProviders == Providers \cup {"qwen", "ollama"}
\* typeof client.generateResponseWithTools === "function"
HasNativeTools(p) == p # "qwen"

\* server configurations: s1 and s2 may carry the same name; s3 is not active
ServerConfigs ==
    { [id |-> "s1", name |-> "A", isActive |-> TRUE],
      [id |-> "s2", name |-> "A", isActive |-> TRUE],
      [id |-> "s2", name |-> "B", isActive |-> TRUE],
      [id |-> "s3", name |-> "C", isActive |-> FALSE] }

\* the tools a server answers to client.listTools(), in its order
ExposedTools(id) ==
    IF id = "s1" THEN <<"search", "t1">>
    ELSE IF id = "s2" THEN <<"search">> ELSE <<"t3">>

DistinctIds(servers) ==
    \A i, j \in 1..Len(servers) : i # j => servers[i].id # servers[j].id

ActiveServerLists ==
    UNION { {l \in [1..n -> ServerConfigs] : DistinctIds(l)} : n \in 0..MaxServers }

ServerIdSets == {Absent} \cup SUBSET {"s1", "s2", "s3"}

RECURSIVE SelectSeq2(_, _)
\* Array.prototype.filter with the predicate of lines 110-111
SelectSeq2(servers, ids) ==
    IF servers = <<>> THEN <<>>
    ELSE (IF Head(servers).isActive /\ (ids = Absent \/ Head(servers).id \in ids)
          THEN <<Head(servers)>> ELSE <<>>) \o SelectSeq2(Tail(servers), ids)

\* lines 109-111: relevantServers
RelevantOf(servers, ids) == SelectSeq2(servers, ids)

\* MCPService.listTools(null, server): the descriptors of the server's tools, or
\* [] when the session cannot be established or the request fails
ListTools(server, ok) ==
    IF ok
    THEN [k \in 1..Len(ExposedTools(server.id)) |->
             [id |-> <<server.name, ExposedTools(server.id)[k]>>,
              name |-> ExposedTools(server.id)[k],
              serverId |-> server.id, serverName |-> server.name]]
    ELSE <<>>

\* lines 173-179: the catalog entry made from a descriptor (it has no id field)
CatalogEntry(tool, server) ==
    [name |-> tool.name, serverId |-> server.id, serverName |-> server.name]

NoTurnResult == [success |-> FALSE, kind |-> "none"]

InitTurnPart ==
    /\ providerId \in TurnProviders \cup {"unknown"}
    /\ activeServers \in ActiveServerLists
    /\ serverIds \in ServerIdSets
    /\ tpc = "start"
    /\ gi = 1
    /\ availableTools = <<>>
    /\ turnResult = NoTurnResult
    /\ failure = "none"

\* no turn is running
TurnIdle ==
    /\ providerId = "none" /\ activeServers = <<>> /\ serverIds = Absent
    /\ tpc = "done" /\ gi = 1 /\ availableTools = <<>>
    /\ turnResult = NoTurnResult /\ failure = "none"

TurnReturns(success, kind, cause) ==
    /\ tpc' = "done"
    /\ turnResult' = [success |-> success, kind |-> kind]
    /\ failure' = cause

\* lines 99-105: no client for the provider
NoClient ==
    /\ tpc = "start"
    /\ providerId = "unknown"
    /\ TurnReturns(FALSE, "noClient", "noClient")
    /\ UNCHANGED <<providerId, activeServers, serverIds, gi, availableTools>>
    /\ OnlyTurn

\* lines 109-114, 125: the relevant servers are selected; without one the plain
\* completion is requested, else the catalog is collected
SelectServers ==
    /\ tpc = "start"
    /\ providerId # "unknown"
    /\ tpc' = IF RelevantOf(activeServers, serverIds) = <<>> THEN "plain" ELSE "catalog"
    /\ UNCHANGED <<providerId, activeServers, serverIds, gi, availableTools,
                   turnResult, failure>>
    /\ OnlyTurn

\* how a provider's generateResponse ends when it fails: validateProvider throws
\* (no API key) before the try; a vendor failure left after the retries is
\* rethrown, except by the OpenAI definition at lines 176-225, which returns the
\* error message as the response text
GenerateResponseThrows(p, cause) == cause = "apiKey" \/ p # "openai2"

\* validateProvider is not called by OllamaProvider
CanFail(p, cause) == cause = "vendor" \/ p # "ollama"

\* lines 115-117: client.generateResponse returned a text
PlainReturns ==
    /\ tpc = "plain"
    /\ TurnReturns(TRUE, "plain", "none")
    /\ UNCHANGED <<providerId, activeServers, serverIds, gi, availableTools>>
    /\ OnlyTurn

\* lines 115-120: client.generateResponse failed
PlainFails(cause) ==
    /\ tpc = "plain"
    /\ CanFail(providerId, cause)
    /\ IF GenerateResponseThrows(providerId, cause)
       THEN TurnReturns(FALSE, "error", cause)
       ELSE TurnReturns(TRUE, "plain", cause)
    /\ UNCHANGED <<providerId, activeServers, serverIds, gi, availableTools>>
    /\ OnlyTurn

\* a listing failure leaves getAvailableTools and ends the turn
CollectToolsAborts(ok) ==
    /\ tpc = "catalog"
    /\ LET servers == RelevantOf(activeServers, serverIds)
           server == servers[gi]
           serverTools == ListTools(server, ok) IN
       /\ availableTools' =
             IF ok THEN availableTools \o
                  [k \in 1..Len(serverTools) |-> CatalogEntry(serverTools[k], server)]
             ELSE <<>>
       /\ gi' = gi + 1
       /\ tpc' = IF ~ok THEN "done"
                 ELSE IF gi < Len(servers) THEN "catalog"
                 ELSE IF HasNativeTools(providerId) THEN "native" ELSE "legacyFirst"
       /\ failure' = IF ok THEN failure ELSE "catalog"
       /\ turnResult' = IF ok THEN turnResult
                        ELSE [success |-> FALSE, kind |-> "error"]
    /\ UNCHANGED <<providerId, activeServers, serverIds>>
    /\ OnlyTurn

\* lines 166-187: getAvailableTools: listTools of the next server returned; then
\* lines 129-149: the native or the text-embedded path is taken
CollectTools(ok) ==
    /\ tpc = "catalog"
    /\ LET servers == RelevantOf(activeServers, serverIds)
           server == servers[gi]
           serverTools == ListTools(server, ok) IN
       /\ availableTools' = availableTools \o
             [k \in 1..Len(serverTools) |-> CatalogEntry(serverTools[k], server)]
       /\ gi' = gi + 1
       /\ tpc' = IF gi < Len(servers) THEN "catalog"
                 ELSE IF HasNativeTools(providerId) THEN "native" ELSE "legacyFirst"
    /\ UNCHANGED <<providerId, activeServers, serverIds, turnResult, failure>>
    /\ OnlyTurn

\* lines 136-142: client.generateResponseWithTools returned a successful result
NativeReturns ==
    /\ tpc = "native"
    /\ TurnReturns(TRUE, "native", "none")
    /\ UNCHANGED <<providerId, activeServers, serverIds, gi, availableTools>>
    /\ OnlyTurn

\* lines 136-142, 161-163: client.generateResponseWithTools failed: it threw (no
\* API key) and the catch converts the error, or its own catch returned a result
NativeFails(cause) ==
    /\ tpc = "native"
    /\ CanFail(providerId, cause)
    /\ IF cause = "vendor" /\ providerId \in Providers
       THEN TurnReturns(CaughtSuccess(providerId), "native", cause)
       ELSE TurnReturns(FALSE, "error", cause)
    /\ UNCHANGED <<providerId, activeServers, serverIds, gi, availableTools>>
    /\ OnlyTurn

\* line 149: the text-embedded path: client.generateResponse returned a text
LegacyFirstReturns ==
    /\ tpc = "legacyFirst"
    /\ tpc' = "legacyTools"
    /\ UNCHANGED <<providerId, activeServers, serverIds, gi, availableTools,
                   turnResult, failure>>
    /\ OnlyTurn

\* lines 149, 161-163: client.generateResponse threw
LegacyFirstFails(cause) ==
    /\ tpc = "legacyFirst"
    /\ TurnReturns(FALSE, "error", cause)
    /\ UNCHANGED <<providerId, activeServers, serverIds, gi, availableTools>>
    /\ OnlyTurn

\* lines 150-158: toolProcessor.processToolCalls returned
LegacyToolsReturn ==
    /\ tpc = "legacyTools"
    /\ TurnReturns(TRUE, "legacy", "none")
    /\ UNCHANGED <<providerId, activeServers, serverIds, gi, availableTools>>
    /\ OnlyTurn

NextTurn ==
    \/ NoClient
    \/ SelectServers
    \/ PlainReturns
    \/ \E cause \in {"apiKey", "vendor"} : PlainFails(cause)
    \/ \E ok \in BOOLEAN : CollectTools(ok)
    \/ NativeReturns
    \/ \E cause \in {"apiKey", "vendor"} : NativeFails(cause)
    \/ LegacyFirstReturns
    \/ \E cause \in {"apiKey", "vendor"} : LegacyFirstFails(cause)
    \/ LegacyToolsReturn

(***************************************************************************)
(* Part V: getServerKey and initClient on server configurations            *)
(***************************************************************************)
\* edits of the configuration and initClient calls in one run
MaxSteps == 3

\* field values are token sequences
Undefined == <<"undefined">>
EmptyObject == <<"{}">>
EmptyArray == <<"[]">>
NoTransport == <<"error">>

\* values of the fields of an MCPServer that initClient reads
FieldValues ==
    [id |-> {<<"s1">>, <<"s2">>},
     type |-> {<<"stdio">>, <<"sse">>, <<"streamableHttp">>},
     baseUrl |-> {Undefined, <<"http://a">>},
     command |-> {Undefined, <<"cmd">>},
     args |-> {Undefined, EmptyArray, <<"[]", "x">>},
     env |-> {Undefined, <<"E1">>},
     headers |-> {Undefined, <<"H1">>, <<"H2">>}]

Fields == DOMAIN FieldValues

\* JSON.stringify of the object of lines 21-27: the members in their order; args
\* that is no array is written as []
GetServerKey(srv) ==
    <<srv.baseUrl, srv.command,
      IF srv.args = Undefined THEN EmptyArray ELSE srv.args, srv.env, srv.id>>

\* lines 56-80: the transport initClient constructs, or the error it throws
TransportOf(srv) ==
    IF srv.baseUrl # Undefined
    THEN IF srv.type \in {<<"streamableHttp">>, <<"sse">>}
         THEN [kind |-> srv.type, url |-> srv.baseUrl,
               headers |-> IF srv.headers = Undefined THEN EmptyObject
                           ELSE srv.headers]
         ELSE [kind |-> NoTransport]
    ELSE IF srv.command # Undefined
    THEN [kind |-> <<"stdio">>, command |-> srv.command,
          args |-> IF srv.args = Undefined THEN EmptyArray ELSE srv.args,
          env |-> IF srv.env = Undefined THEN EmptyObject ELSE srv.env]
    ELSE [kind |-> NoTransport]

NotAcquired == [st |-> "none"]

InitKeyPart ==
    /\ serverConfig \in
          { [id |-> <<"s1">>, type |-> <<"stdio">>, baseUrl |-> Undefined,
             command |-> <<"cmd">>, args |-> EmptyArray, env |-> Undefined,
             headers |-> Undefined],
            [id |-> <<"s1">>, type |-> <<"sse">>, baseUrl |-> <<"http://a">>,
             command |-> Undefined, args |-> Undefined, env |-> Undefined,
             headers |-> <<"H1">>] }
    /\ keyed = <<>>
    /\ acquired = NotAcquired
    /\ steps = 0

KeyIdle ==
    /\ serverConfig = <<>> /\ keyed = <<>> /\ acquired = NotAcquired /\ steps = 0

\* the user edits one field of the configuration
EditServer(field, value) ==
    /\ steps < MaxSteps
    /\ serverConfig[field] # value
    /\ serverConfig' = [serverConfig EXCEPT ![field] = value]
    /\ steps' = steps + 1
    /\ acquired' = NotAcquired
    /\ UNCHANGED keyed
    /\ OnlyKey

\* lines 30-87, one caller, the ping succeeding: the Client stored under the key
\* is returned; else a transport is constructed from the configuration and the
\* connected Client is stored, or initClient throws for want of a transport
InitClientFor ==
    /\ steps < MaxSteps
    /\ steps' = steps + 1
    /\ LET serverKey == GetServerKey(serverConfig)
           existingClient == IndexOfKey(keyed, serverKey, 1) IN
       IF existingClient # 0
       THEN /\ acquired' = [st |-> "ok", client |-> keyed[existingClient].sess,
                            fresh |-> FALSE]
            /\ UNCHANGED keyed
       ELSE IF TransportOf(serverConfig).kind = NoTransport
       THEN /\ acquired' = [st |-> "fail"]
            /\ UNCHANGED keyed
       ELSE /\ acquired' = [st |-> "ok", client |-> TransportOf(serverConfig),
                            fresh |-> TRUE]
            /\ keyed' = MapSet(keyed, serverKey, TransportOf(serverConfig))
    /\ UNCHANGED serverConfig
    /\ OnlyKey

NextKey ==
    \/ \E field \in Fields : \E value \in FieldValues[field] : EditServer(field, value)
    \/ InitClientFor

(***************************************************************************)
(* Part VI: BaseProvider.withRetry                                         *)
(***************************************************************************)
\* AppConfig.ai.providers: the configured providers and their maxRetries
ConfigKeys == {"openai", "anthropic", "gemini", "deepseek", "qwen"}
ConfigMaxRetries(key) == maxRetries

\* values the operation resolves with
OperationValues == {"v1", "v2"}

Pow2(n) == 2 ^ n
Min(a, b) == IF a < b THEN a ELSE b

\* line 65: Math.min(1000 * Math.pow(2, attempt - 1), 10000)
DelayUncapped(n) == 1000 * Pow2(n - 1)
Delay(n) == Min(1000 * Pow2(n - 1), 10000)

NoOutcome == [kind |-> "none", value |-> "none", error |-> 0]

\* lines 50-56: withRetry is entered, with maxRetries passed or defaulted to
\* this.config.maxRetries; the first attempt opCalls the operation
InitRetryPart ==
    /\ configKey \in ConfigKeys
    /\ maxRetriesArg \in {ConfigMaxRetries(configKey)} \cup 1..MaxAttempts
    /\ tryNo = 1
    /\ wpc = "call"
    /\ lastError = 0
    /\ opCalls = 0
    /\ delays = <<>>
    /\ outcome = NoOutcome

\* no withRetry call is running
RetryIdle ==
    /\ configKey = "none" /\ maxRetriesArg = 0 /\ tryNo = 0 /\ wpc = "idle"
    /\ lastError = 0 /\ opCalls = 0 /\ delays = <<>> /\ outcome = NoOutcome

\* line 58: the operation resolved: withRetry returns its value
OperationReturns(v) ==
    /\ wpc = "call"
    /\ opCalls' = opCalls + 1
    /\ wpc' = "returned"
    /\ outcome' = [kind |-> "value", value |-> v, error |-> 0]
    /\ UNCHANGED <<configKey, maxRetriesArg, tryNo, lastError, delays>>
    /\ OnlyRetry

\* lines 59-71: the operation rejected: the error is kept; before the last
\* attempt the delay is awaited, after it the loop ends and lastError is thrown
OperationRejects ==
    /\ wpc = "call"
    /\ opCalls' = opCalls + 1
    /\ lastError' = tryNo
    /\ IF tryNo < maxRetriesArg
       THEN /\ wpc' = "wait"
            /\ delays' = Append(delays, Delay(tryNo))
            /\ UNCHANGED outcome
       ELSE /\ wpc' = "threw"
            /\ outcome' = [kind |-> "error", value |-> "none", error |-> lastError']
            /\ UNCHANGED delays
    /\ UNCHANGED <<configKey, maxRetriesArg, tryNo>>
    /\ OnlyRetry

\* lines 66 and 56: the timer fired: the next attempt opCalls the operation
DelayElapsed ==
    /\ wpc = "wait"
    /\ tryNo' = tryNo + 1
    /\ wpc' = "call"
    /\ UNCHANGED <<configKey, maxRetriesArg, lastError, opCalls, delays, outcome>>
    /\ OnlyRetry

NextRetry ==
    \/ \E v \in OperationValues : OperationReturns(v)
    \/ OperationRejects
    \/ DelayElapsed

(***************************************************************************)
(* Part VII: overlapping turns on one AIService                            *)
(*                                                                         *)
(* A turn is one run of the ai:generateResponseWithTools handler. Between  *)
(* two awaits a turn runs alone; at an await another turn may run.         *)
(***************************************************************************)
TurnIds == 1..NTurns

\* storageService.getMCPServers().filter(s => s.isActive) at the start of a turn
StoredSnapshots ==
    { <<>>,
      <<[id |-> "s1", name |-> "A", isActive |-> TRUE]>>,
      <<[id |-> "s2", name |-> "B", isActive |-> TRUE]>>,
      <<[id |-> "s1", name |-> "A", isActive |-> TRUE],
        [id |-> "s2", name |-> "B", isActive |-> TRUE]>> }

\* params.serverIds
TurnServerIds == {Absent, {"s1"}, {"s2"}}

IdleTurn == [pc |-> "idle", snapshot |-> <<>>, serverIds |-> Absent,
             relevantServers |-> <<>>, gi |-> 1, availableTools |-> <<>>,
             toolCalls |-> <<>>, overtaken |-> FALSE]

Suspended(t) == turns[t].pc \in {"plain", "catalog", "provider"}

InitTurnsPart ==
    /\ activeServersField = <<>>
    /\ turns = [t \in TurnIds |-> IdleTurn]

\* no turn was started
TurnsIdle == InitTurnsPart

\* the servers a suspended turn goes on with: its local relevantServers
RelevantServersShared(t) == RelevantOf(activeServersField, turns[t].serverIds)
RelevantServersOf(t) == turns[t].relevantServers

\* index.ts 243-247 and part_000 19-21, 99-122: the handler installs the
\* snapshot with setActiveServers and calls generateResponseWithTools, which
\* computes relevantServers from the field before its first await
TurnStart(t, snapshot, ids) ==
    /\ turns[t].pc = "idle"
    /\ activeServersField' = snapshot
    /\ LET relevant == RelevantOf(activeServersField', ids) IN
       turns' = [u \in TurnIds |->
          IF u = t
          THEN [IdleTurn EXCEPT !.pc = IF relevant = <<>> THEN "plain" ELSE "catalog",
                                !.snapshot = snapshot, !.serverIds = ids,
                                !.relevantServers = relevant]
          ELSE IF Suspended(u) /\ snapshot # turns[u].snapshot
          THEN [turns[u] EXCEPT !.overtaken = TRUE]
          ELSE turns[u]]
    /\ OnlyTurns

\* lines 114-121: the plain completion settled
TurnPlainSettles(t) ==
    /\ turns[t].pc = "plain"
    /\ turns' = [turns EXCEPT ![t].pc = "done"]
    /\ UNCHANGED activeServersField
    /\ OnlyTurns

\* lines 125, 166-187: listTools of the next relevant server settled
TurnCollects(t, ok) ==
    /\ turns[t].pc = "catalog"
    /\ LET servers == RelevantServersOf(t)
           g == turns[t].gi
           entries == IF g <= Len(servers)
                      THEN LET serverTools == ListTools(servers[g], ok) IN
                           [k \in 1..Len(serverTools) |->
                               CatalogEntry(serverTools[k], servers[g])]
                      ELSE <<>> IN
       turns' = [turns EXCEPT
                   ![t].availableTools = @ \o entries,
                   ![t].gi = g + 1,
                   ![t].pc = IF g < Len(servers) THEN "catalog" ELSE "provider"]
    /\ UNCHANGED activeServersField
    /\ OnlyTurns

\* lines 136-142: the provider's generateResponseWithTools(messages, model,
\* maxTokens, availableTools, relevantServers) settled, having invoked no tool
\* or tool number k of the catalog it was given
TurnProviderSettles(t, k) ==
    /\ turns[t].pc = "provider"
    /\ k <= Len(turns[t].availableTools)
    /\ turns' = [turns EXCEPT
                   ![t].toolCalls = IF k = 0 THEN <<>> ELSE <<turns[t].availableTools[k]>>,
                   ![t].pc = "done"]
    /\ UNCHANGED activeServersField
    /\ OnlyTurns

NextTurns ==
    \E t \in TurnIds :
        \/ \E snapshot \in StoredSnapshots, ids \in TurnServerIds :
              TurnStart(t, snapshot, ids)
        \/ TurnPlainSettles(t)
        \/ \E ok \in BOOLEAN : TurnCollects(t, ok)
        \/ \E k \in 0..Len(turns[t].availableTools) : TurnProviderSettles(t, k)

(***************************************************************************)
(* Part VIII: ToolProcessor.parseFunctionArgs                              *)
(*                                                                         *)
(* An argument string is a sequence of tokens: names and value characters, *)
(* "=", ",", " " and the quote characters.                                 *)
(***************************************************************************)
QuoteChars == {"'", "\"", "backtick"}
ArgKeys == {"symbol", "q"}
\* the values written between the quotes
ArgValues == { <<>>, <<"ABC">>, <<"A", " ", "B">>, <<"A", "=", "B">>, <<"A", ",", "B">> }

\* the quote characters the model writes around a value
ArgQuotes == {"'", "\""}
Arguments == [key : ArgKeys, quote : ArgQuotes, value : ArgValues]
ArgLists == UNION { [1..n -> Arguments] : n \in 1..MaxArgs }

\* the text of a call's argument list: key=<quote>value<quote>, joined by ", "
RECURSIVE Render(_)
Render(list) ==
    IF list = <<>> THEN <<>>
    ELSE LET a == Head(list)
             one == <<a.key, "=", a.quote>> \o a.value \o <<a.quote>> IN
         IF Tail(list) = <<>> THEN one
         ELSE one \o <<",", " ">> \o Render(Tail(list))

\* String.prototype.split(sep)
RECURSIVE SplitOn(_, _)
SplitOn(str, sep) ==
    LET i == FindFrom(str, sep, 1) IN
    IF i = 0 THEN <<str>>
    ELSE <<SubSeq(str, 1, i - 1)>> \o SplitOn(SubSeq(str, i + 1, Len(str)), sep)

\* Array.prototype.join(sep)
RECURSIVE JoinWith(_, _)
JoinWith(parts, sep) ==
    IF parts = <<>> THEN <<>>
    ELSE IF Tail(parts) = <<>> THEN Head(parts)
    ELSE Head(parts) \o <<sep>> \o JoinWith(Tail(parts), sep)

\* String.prototype.trim()
RECURSIVE Trim(_)
Trim(str) ==
    IF str = <<>> THEN <<>>
    ELSE IF Head(str) = " " THEN Trim(Tail(str))
    ELSE IF str[Len(str)] = " " THEN Trim(SubSeq(str, 1, Len(str) - 1))
    ELSE str

\* lines 215, 220: replace(/^['"`]|['"`]$/g, ""): a quote character at the
\* start and one at the end are removed
StripQuotes(str) ==
    LET lead == str # <<>> /\ Head(str) \in QuoteChars
        rest == IF lead THEN Tail(str) ELSE str IN
    IF rest # <<>> /\ rest[Len(rest)] \in QuoteChars
    THEN SubSeq(rest, 1, Len(rest) - 1) ELSE rest

\* args[key] = value
PutArg(args, key, value) == {a \in args : a[1] # key} \cup {<<key, value>>}

\* lines 206-224: one element of argsString.split(",")
ParseArgPair(args, argPair) ==
    LET trimmedPair == Trim(argPair) IN
    IF FindFrom(trimmedPair, "=", 1) # 0
    THEN LET parts == SplitOn(trimmedPair, "=")
             key == Head(parts)
             value == JoinWith(Tail(parts), "=") IN
         IF key # <<>> /\ value # <<>>
         THEN PutArg(args, Trim(key), StripQuotes(Trim(value))) ELSE args
    ELSE IF trimmedPair # <<>>
    THEN PutArg(args, <<"symbol">>, StripQuotes(trimmedPair))
    ELSE args

RECURSIVE ParseArgPairs(_, _)
ParseArgPairs(args, argPairs) ==
    IF argPairs = <<>> THEN args
    ELSE ParseArgPairs(ParseArgPair(args, Head(argPairs)), Tail(argPairs))

\* lines 201-227
ParseFunctionArgs(str) == ParseArgPairs({}, SplitOn(str, ","))

\* processCodeToolCall reaches line 155 with the argument text of a call
InitArgsPart ==
    /\ argList \in ArgLists
    /\ argsString = Render(argList)
    /\ parsedArgs = {}
    /\ argsDone = FALSE

\* no argument string is being parsed
ArgsIdle ==
    argList = <<>> /\ argsString = <<>> /\ parsedArgs = {} /\ argsDone = TRUE

\* line 155
ParseArgs ==
    /\ ~argsDone
    /\ parsedArgs' = ParseFunctionArgs(argsString)
    /\ argsDone' = TRUE
    /\ UNCHANGED <<argList, argsString>>
    /\ OnlyArgs

NextArgs == ParseArgs

(* ---------------------------- specifications --------------------------- *)
RegAtStart == InitRegPart /\ clients = <<>>

InitReg == InitRegPart /\ NormIdle /\ AdapterIdle /\ TurnIdle /\ KeyIdle /\ RetryIdle
    /\ TurnsIdle /\ ArgsIdle
InitNorm == InitNormPart /\ RegAtStart /\ AdapterIdle /\ TurnIdle /\ KeyIdle /\ RetryIdle
    /\ TurnsIdle /\ ArgsIdle
InitCode == InitCodePart /\ RegAtStart /\ AdapterIdle /\ TurnIdle /\ KeyIdle /\ RetryIdle
    /\ TurnsIdle /\ ArgsIdle
InitAdapter == InitAdapterPart /\ RegAtStart /\ NormIdle /\ TurnIdle /\ KeyIdle /\ RetryIdle
    /\ TurnsIdle /\ ArgsIdle
InitTurn == InitTurnPart /\ RegAtStart /\ NormIdle /\ AdapterIdle /\ KeyIdle /\ RetryIdle
    /\ TurnsIdle /\ ArgsIdle
InitKey == InitKeyPart /\ RegAtStart /\ NormIdle /\ AdapterIdle /\ TurnIdle /\ RetryIdle
    /\ TurnsIdle /\ ArgsIdle
InitRetry ==
    InitRetryPart /\ RegAtStart /\ NormIdle /\ AdapterIdle /\ TurnIdle /\ KeyIdle
    /\ TurnsIdle /\ ArgsIdle
InitTurns ==
    InitTurnsPart /\ RegAtStart /\ NormIdle /\ AdapterIdle /\ TurnIdle /\ KeyIdle
    /\ RetryIdle /\ ArgsIdle
InitArgs ==
    InitArgsPart /\ RegAtStart /\ NormIdle /\ AdapterIdle /\ TurnIdle /\ KeyIdle
    /\ RetryIdle /\ TurnsIdle

SpecReg == InitReg /\ [][NextReg]_vars
SpecSeq == InitReg /\ [][NextSeq]_vars
SpecNorm == InitNorm /\ [][NextNorm]_vars
SpecCode == InitCode /\ [][NextNorm]_vars
SpecAdapter == InitAdapter /\ [][NextAdapter]_vars
SpecTurn == InitTurn /\ [][NextTurn]_vars
SpecKey == InitKey /\ [][NextKey]_vars
SpecRetry == InitRetry /\ [][NextRetry]_vars
SpecTurns == InitTurns /\ [][NextTurns]_vars
SpecArgs == InitArgs /\ [][NextArgs]_vars
\* the operation's promise settles and the timer fires
SpecRetryFair == SpecRetry /\ WF_vars(NextRetry)

(***************************************************************************)
(* Claims about MCPService                                                 *)
(***************************************************************************)
AcquiredOk(p) == ret[p].op = "initClient" /\ ret[p].st = "ok"

\* C1: concurrent initClient calls for one fingerprint never produce two
\* independent live sessions: callers whose acquisitions of the same key
\* overlapped, and whose liveness probes (if any) succeeded, all end up with the
\* same session, which is the one stored in the registry.
C1_ConcurrentAcquireOneSession ==
    \A p, q \in Procs :
        ( /\ p # q
          /\ AcquiredOk(p) /\ AcquiredOk(q)
          /\ ret[p].key = ret[q].key
          /\ ghost[p].raced /\ ghost[q].raced
          /\ ~ghost[p].pingFailed /\ ~ghost[q].pingFailed
          /\ ret[p].sess \in open /\ ret[q].sess \in open )
        => ret[p].sess = ret[q].sess

\* C2: an initClient that directly follows an initClient of the same caller for
\* the same key (no release in between), and whose ping succeeds, returns the
\* session the first one returned and establishes no connection.
C2_SequentialAcquireSameSession ==
    \A p \in Procs :
        ( /\ ret[p].op = "initClient" /\ ret[p].st # "none"
          /\ ghost[p].prevRet # None
          /\ ~ghost[p].pingFailed )
        => /\ ret[p].st = "ok"
           /\ ret[p].sess = ghost[p].prevRet
           /\ ~ghost[p].connected

C2_Witness ==
    \E p \in Procs :
        /\ AcquiredOk(p) /\ ghost[p].prevRet # None /\ ~ghost[p].pingFailed
        /\ ret[p].sess = ghost[p].prevRet
        /\ MapGet(clients, ret[p].key) = ret[p].sess

\* C3: while a callTool whose callId no overlapping invocation shares is
\* outstanding and not cancelled, its controller is registered under its callId;
\* and every registered handle belongs to an outstanding invocation with that
\* callId, so no handle survives the end of its call and the map is empty when
\* no invocation is outstanding.
C3_HandleRegisteredExactlyWhileOutstanding ==
    /\ \A p \in Procs :
         (Outstanding(procs, p) /\ ~ghost[p].dup /\ ~aborted[p])
         => activeToolCalls[procs[p].cid] = p
    /\ \A id \in CallIds :
         activeToolCalls[id] # None
         => /\ Outstanding(procs, activeToolCalls[id])
            /\ procs[activeToolCalls[id]].cid = id

C3_Witness ==
    \E p, q \in Procs :
        /\ ret[p].op = "callTool" /\ ret[p].st = "fail" /\ ~ghost[p].dup
        /\ activeToolCalls[ret[p].cid] = None
        /\ procs[q].pc = "calling" /\ activeToolCalls[procs[q].cid] = q

\* C4: a callTool for whose callId abortTool was called while it was outstanding
\* (its callId shared with no overlapping invocation) ends failed, never with a
\* tool result; and right after any abortTool(id) no handle is registered under
\* id, so that a subsequent abortTool(id) returns false.
C4_CancelledInvokeFails ==
    /\ \A p \in Procs :
         (ret[p].op = "callTool" /\ ret[p].st # "none"
          /\ ghost[p].cancelReq /\ ~ghost[p].dup)
         => ret[p].st = "fail"
    /\ abortRet # NoAbort => activeToolCalls[abortRet.id] = None

C4_Witness ==
    \E p \in Procs :
        /\ ret[p].op = "callTool" /\ ret[p].st = "fail"
        /\ ghost[p].cancelReq /\ ~ghost[p].dup
        /\ ghost[p].connected
        /\ MapGet(clients, ret[p].key) \in open

\* C5: abortTool(id) returns true exactly when a handle is registered under id;
\* it then aborts that handle's controller only and removes that handle only;
\* otherwise it changes nothing. The registry, the other handles and the
\* positions of all outstanding operations are untouched either way.
C5_AbortToolFrame ==
    [][ abortRet' # NoAbort =>
          LET id == abortRet'.id
              controller == activeToolCalls[id] IN
          /\ abortRet'.ret = (controller # None)
          /\ clients' = clients /\ open' = open /\ procs' = procs /\ ret' = ret
          /\ \A c \in CallIds \ {id} : activeToolCalls'[c] = activeToolCalls[c]
          /\ activeToolCalls'[id] = None
          /\ \A q \in Procs : aborted'[q] # aborted[q] => q = controller
          /\ controller # None => aborted'[controller]
      ]_vars

C5_Witness ==
    /\ abortRet # NoAbort /\ abortRet.ret
    /\ clients # <<>>
    /\ \E q \in Procs : procs[q].pc = "calling" /\ procs[q].cid = abortRet.id
                        /\ aborted[q]
\* C14: an initClient whose ping on the stored session fails does not fail for
\* that: it deletes the key and goes on to connect a new Client. When the
\* connect succeeds, the new session is stored under the key and returned; when
\* it fails, initClient fails and (no other acquisition of the key overlapping)
\* the key holds no session.
C14_StaleSessionReplaced ==
    [][\A p \in Procs :
        /\ (procs[p].pc = "ping" /\ procs'[p].pc # "ping") =>
              \/ procs'[p].pc = "connect"
                   /\ MapGet(clients', procs[p].key) = None
                   /\ procs'[p].cli \notin open
                   /\ procs'[p].cli # procs[p].cli
              \/ procs'[p].pc # "connect"
                   /\ (procs[p].op = "initClient" =>
                          ret'[p].st = "ok" /\ ret'[p].sess = procs[p].cli)
        /\ (ghost[p].pingFailed /\ procs[p].pc = "connect" /\ procs'[p].pc # "connect") =>
              IF ghost'[p].connected
              THEN /\ MapGet(clients', procs[p].key) = procs[p].cli
                   /\ procs[p].cli \in open'
                   /\ (procs[p].op = "initClient" =>
                          ret'[p].st = "ok" /\ ret'[p].sess = procs[p].cli)
              ELSE /\ ret'[p].st = "fail"
                   /\ ~ghost[p].raced => MapGet(clients', procs[p].key) = None
      ]_vars

C14_Witness ==
    \E p \in Procs :
        /\ ghost[p].pingFailed /\ ghost[p].connected
        /\ ret[p].op = "initClient" /\ ret[p].st = "ok"
        /\ MapGet(clients, ret[p].key) = ret[p].sess
        /\ ret[p].sess # 1

\* C15: the session initClient returns was connected with the connection
\* parameters of the configuration it was called with (kind, command, arguments,
\* environment, base URL, headers): no session made for other parameters is
\* returned.
C15_KeyCoversConnectionParameters ==
    acquired.st = "ok" => acquired.client = TransportOf(serverConfig)

(***************************************************************************)

\* C16: stopServer (removeServer) closes the session stored under the
\* configuration's key and forgets it: when the call completes the registry
\* holds no session for that key and the call has not raised; a call that finds
\* no session stored changes nothing and does not raise.
C16_ReleaseForgets ==
    [][\A p \in Procs :
        /\ (procs[p].pc = "closing" /\ procs'[p].pc # "closing") =>
              /\ ret'[p].op = "stopServer"
              /\ ret'[p].st = "ok"
              /\ MapGet(clients', procs[p].key) = None
              /\ procs[p].cli \notin open'
        /\ (procs[p].pc = "idle" /\ procs'[p].pc = "idle"
              /\ ret'[p] # ret[p] /\ ret'[p].op = "stopServer") =>
              /\ ret'[p].st = "ok"
              /\ clients' = clients
              /\ open' = open
      ]_vars


\* C17: cleanup awaits close() of every session in the registry, in the
\* registry's order; after a close() that resolved or rejected it goes on with
\* the next session; it returns only after the last one, without raising, and
\* leaves the registry empty.
C17_CleanupClosesAll ==
    [][\A p \in Procs :
        /\ (procs[p].pc = "idle" /\ procs'[p].pc = "cleanupClosing") =>
              /\ procs'[p].it = 1
              /\ procs'[p].cli = clients[1].sess
        /\ (procs[p].pc = "cleanupClosing") =>
              \/ procs'[p] = procs[p] /\ clients' = clients
              \/ /\ procs'[p].pc = "cleanupClosing"
                 /\ procs'[p].it = procs[p].it + 1
                 /\ procs'[p].cli = clients[procs'[p].it].sess
                 /\ clients' = clients
                 /\ open' \in {open, open \ {procs[p].cli}}
              \/ /\ procs'[p].pc = "idle"
                 /\ procs[p].it = Len(clients)
                 /\ ret'[p].op = "cleanup" /\ ret'[p].st = "ok"
                 /\ clients' = <<>>
        /\ (procs[p].pc = "idle" /\ procs'[p].pc = "idle"
              /\ ret'[p] # ret[p] /\ ret'[p].op = "cleanup") =>
              /\ ret'[p].st = "ok"
              /\ clients = <<>> /\ clients' = <<>>
      ]_vars

\* the close() of the first session rejected (it is still open) and cleanup is
\* closing the second one
C17_Witness ==
    \E p \in Procs :
        /\ procs[p].pc = "cleanupClosing"
        /\ procs[p].it = 2
        /\ Len(clients) = 2
        /\ clients[1].sess \in open
        /\ procs[p].cli = clients[2].sess

(* Claims about ToolProcessor                                              *)
(***************************************************************************)
\* the <tool_call> spans of the input whose body JSON.parse accepts as it stands
ValidJsonSpans ==
    {k \in 1..Len(toolCallMatches) :
        LET body == BodyOf(MatchText(response, toolCallMatches[k])) IN
        Len(body) = 1 /\ body[1] \in JsonTokens}

Returned == response # <<>> /\ npc = "done"

\* C6: when processToolCalls returns for an output all of whose <tool_call>
\* spans have valid JSON bodies (and that has no <tool_code> span), it returns
\* exactly one record per span, also for a span whose server was not found or
\* whose call failed.
C6_OneRecordPerJsonSpan ==
    (/\ Returned
     /\ toolCodeMatches = <<>>
     /\ ValidJsonSpans = 1..Len(toolCallMatches))
    => Len(toolCalls) = Len(toolCallMatches)

RECURSIVE StripDelimited(_, _, _, _)
\* s with every region from an opening tag in opens to the next closing tag in
\* closes, tags included, removed
StripDelimited(s, opens, closes, inside) ==
    IF s = <<>> THEN <<>>
    ELSE IF inside
    THEN StripDelimited(Tail(s), opens, closes, Head(s) \notin closes)
    ELSE IF Head(s) \in opens
    THEN StripDelimited(Tail(s), opens, closes, TRUE)
    ELSE <<Head(s)>> \o StripDelimited(Tail(s), opens, closes, FALSE)

StripSpans(s) == StripDelimited(s, {TcOpen, CodeOpen}, {TcClose, CodeClose}, FALSE)
StripMarkers(s) == StripDelimited(s, {ResOpen, ErrOpen}, {ResClose, ErrClose}, FALSE)

\* markers in s that stand alone, i.e. outside any other marker
RECURSIVE CountMarkers(_, _)
CountMarkers(s, inside) ==
    IF s = <<>> THEN 0
    ELSE IF inside THEN CountMarkers(Tail(s), Head(s) \notin {ResClose, ErrClose})
    ELSE IF Head(s) \in {ResOpen, ErrOpen} THEN 1 + CountMarkers(Tail(s), TRUE)
    ELSE CountMarkers(Tail(s), FALSE)

\* C7: when processToolCalls returns, every recognized span has been replaced
\* by exactly one marker and the text outside the spans is unchanged: the input
\* without its spans equals the output without its markers, and the output has
\* as many markers as the input had spans.
C7_SpansReplacedTextKept ==
    Returned =>
        /\ StripSpans(response) = StripMarkers(processedResponse)
        /\ CountMarkers(processedResponse, FALSE)
             = Len(toolCallMatches) + Len(toolCodeMatches)

\* C8 as stated: the invocations are dispatched in the textual order of their
\* spans, interleaved <tool_call> and <tool_code> spans included.
C8_TextualOrder ==
    \A i, j \in 1..Len(dispatched) : i < j => dispatched[i].at <= dispatched[j].at

\* C8: the invocations of one output are dispatched one at a time, those of the
\* <tool_call> spans first, in textual order, then those of the <tool_code>
\* spans, in textual order.
C8_CallSpansThenCodeSpans ==
    /\ Len(inflight) <= 1
    /\ Len(dispatched) = settled + Len(inflight)
    /\ \A i, j \in 1..Len(dispatched) : i < j =>
          /\ ~(dispatched[i].kind = "code" /\ dispatched[j].kind = "call")
          /\ dispatched[i].kind = dispatched[j].kind
                => dispatched[i].at <= dispatched[j].at
          /\ dispatched[i].kind = "call" /\ dispatched[j].kind = "call"
                => dispatched[i].at < dispatched[j].at

C8_Witness ==
    /\ Returned
    /\ \E i, j \in 1..Len(dispatched) :
          /\ i < j
          /\ dispatched[i].kind = "call" /\ dispatched[j].kind = "code"
          /\ dispatched[j].at < dispatched[i].at
    /\ \E i, j \in 1..Len(dispatched) :
          /\ i < j
          /\ dispatched[i].kind = "code" /\ dispatched[j].kind = "code"
          /\ dispatched[i].at < dispatched[j].at

(***************************************************************************)
(* Claims about the native adapters                                        *)
(***************************************************************************)
\* the turn returned from the operation, and its first pass held tool calls
ReturnedWithToolCalls ==
    /\ provider # "none" /\ apc = "done"
    /\ result.kind = "returned" /\ result.success
    /\ message # <<>>

\* C9: a turn that returns holds exactly one record per tool call of the
\* first-pass response, in their order, with result or error.
C9_OneRecordPerVendorToolCall ==
    ReturnedWithToolCalls =>
        /\ Len(result.toolCalls) = Len(message)
        /\ \A k \in 1..Len(message) : result.toolCalls[k].id = k

\* C10: in a turn whose first pass held tool calls, exactly one follow-up
\* completion was requested when the turn returns, and it carried one
\* tool-result entry per tool call of the first pass.
C10_OneFollowUpWithAllResults ==
    ReturnedWithToolCalls =>
        /\ followUps = 1
        /\ followUpEntries = [k \in 1..Len(message) |-> k]

\* the turn returned from an attempt whose first pass held no tool call
ReturnedNoToolCalls ==
    /\ provider # "none" /\ apc = "done"
    /\ result.kind = "returned" /\ result.success
    /\ message = <<>>

NoToolActivity ==
    /\ followUps = mark.followUps
    /\ invocations = mark.invocations
    /\ result.response = firstText
    /\ result.toolCalls = <<>>

NativeToolsExecuting == apc \in {"loop", "calling"}
\* the text of the response is in processToolCalls, which executes its spans
TextEmbeddedToolsExecuting == apc = "tags" /\ SpansIn(finalResponse) > 0

\* C13: a turn of a native adapter never enters text-embedded tool execution,
\* and leaves native tool execution only towards the follow-up completion,
\* never directly to Done.
C13_TurnStateMachine ==
    [][/\ ~TextEmbeddedToolsExecuting'
       /\ NativeToolsExecuting =>
             (NativeToolsExecuting' \/ apc' = "followup")]_vars

(***************************************************************************)
(* Claims about AIService                                                  *)
(***************************************************************************)
\* C12: a turn in which the provider failed (no client, no API key, or the vendor
\* call still failing after the retries) returns success: false, on the path
\* without servers and on the tools path.
C12_ProviderFailureIsFailure ==
    (tpc = "done" /\ providerId # "none" /\ failure # "none")
        => ~turnResult.success

\* the catalog entries getAvailableTools makes from a server that answers
EntriesOf(server) ==
    [k \in 1..Len(ListTools(server, TRUE)) |->
        CatalogEntry(ListTools(server, TRUE)[k], server)]

\* C18: listTools does not raise: for a server whose session cannot be
\* established or whose listing request fails it yields the empty list, so a
\* step of the multi-server collection either appends that server's entries or
\* appends nothing, keeps the entries collected so far, and goes on to the next
\* server or to the provider call; it never ends the turn.
C18_ListingIsFailSoft ==
    [][(tpc = "catalog") =>
          LET servers == RelevantOf(activeServers, serverIds) IN
          /\ gi' = gi + 1
          /\ availableTools' \in {availableTools,
                                  availableTools \o EntriesOf(servers[gi])}
          /\ tpc' \in {"catalog", "native", "legacyFirst"}
          /\ tpc' = "catalog" <=> gi < Len(servers)
          /\ failure' = "none" /\ turnResult' = NoTurnResult
      ]_vars

\* the first of two servers was broken and the tools of the second one are in
\* the catalog
C18_Witness ==
    LET servers == RelevantOf(activeServers, serverIds) IN
    /\ tpc \in {"native", "legacyFirst"}
    /\ Len(servers) = 2 /\ gi = 3
    /\ availableTools = EntriesOf(servers[2])
    /\ availableTools # <<>>


\* lines 89-106 applied to the first n of the servers, every one answering: the
\* descriptors in server order
RECURSIVE Descriptors(_, _)
Descriptors(servers, n) ==
    IF n = 0 THEN <<>>
    ELSE Descriptors(servers, n - 1) \o ListTools(servers[n], TRUE)

\* C19: when every relevant server answers, the catalog has one entry per
\* (server, tool) pair in server order, and two entries with the same tool name
\* from servers with different ids come from descriptors with different
\* composite ids.
C19_CatalogDistinguishesServers ==
    LET servers == RelevantOf(activeServers, serverIds)
        d == Descriptors(servers, Len(servers)) IN
    (tpc \in {"native", "legacyFirst"} /\ Len(availableTools) = Len(d)) =>
        /\ \A i \in DOMAIN d :
              /\ availableTools[i].name = d[i].name
              /\ availableTools[i].serverId = d[i].serverId
        /\ \A i, j \in DOMAIN d :
              (i # j /\ d[i].name = d[j].name /\ d[i].serverId # d[j].serverId)
                  => d[i].id # d[j].id


\* every function name a code body contains, the calls inside a print()
\* included, in order of appearance
RECURSIVE NamesIn(_)
NamesIn(body) ==
    IF body = <<>> THEN <<>>
    ELSE (IF Head(body) \in CallTokens THEN <<FunctionName(Head(body))>>
          ELSE IF Head(body) \in PrintTokens THEN CallsIn(PrintInner(Head(body)))
          ELSE <<>>)
         \o NamesIn(Tail(body))

NotFound == ErrorMarker(<<"Tool not found in any active server">>)

\* C20: while a <tool_code> span is processed, the function names it contains
\* are tried in order of appearance, each on the relevant servers in order: a
\* step either invokes the current name on the current server, which lists it,
\* or moves to the next (name, server) pair without invoking anything, or,
\* after the last pair (or when the span holds no name), replaces the span by
\* the 'tool not found' error marker; a span none of whose names is a tool of
\* a relevant server never leads to an invocation.
C20_FirstMatchingFunction ==
    [][(npc = "code") =>
          LET names == NamesIn(BodyOf(CurrentSpan))
              server == RelevantServers[si]
              last == fi = Len(names) /\ si = Len(RelevantServers)
              fails == /\ dispatched' = dispatched
                       /\ mi' # mi
                       /\ processedResponse' =
                             StringReplace(processedResponse, CurrentSpan, NotFound)
                       /\ toolCalls' = toolCalls IN
          IF names = <<>> THEN fails
          ELSE /\ fi <= Len(names)
               /\ \/ /\ npc' = "awaitCode"
                     /\ names[fi] \in ServerTools[server]
                     /\ dispatched' = Append(dispatched,
                           [kind |-> "code", at |-> CurrentMatch.start,
                            server |-> server, name |-> names[fi]])
                  \/ /\ ~last
                     /\ dispatched' = dispatched
                     /\ npc' = "code" /\ mi' = mi
                     /\ <<fi', si'>> = IF si < Len(RelevantServers)
                                       THEN <<fi, si + 1>> ELSE <<fi + 1, 1>>
                  \/ last /\ fails
      ]_vars


(***************************************************************************)
(* Claims about failures, retries and concurrent turns                     *)
(***************************************************************************)
\* C21: a tool invocation that ended with an error payload (isError set), a
\* timeout or a cancellation is recorded with the error field, never with the
\* result field: no record of the adapter's executedToolCalls, and none of the
\* records it returns, has result set to a payload whose isError flag is set.
C21_FailureFoldedIntoError ==
    /\ \A k \in DOMAIN executedToolCalls :
          executedToolCalls[k].isError => executedToolCalls[k].st = "error"
    /\ \A k \in DOMAIN result.toolCalls :
          result.toolCalls[k].isError => result.toolCalls[k].st = "error"


\* C22: when the turn has ended, every record with a result that the tool loop
\* made (executedToolCalls of the attempt that ended the turn) is among the
\* records the turn returns, also when a sibling tool call or the follow-up
\* completion failed afterwards.
C22_PartialSuccessesPreserved ==
    (provider # "none" /\ apc = "done") =>
        \A k \in DOMAIN executedToolCalls :
            (executedToolCalls[k].st = "result" /\ ~executedToolCalls[k].isError) =>
                \E j \in DOMAIN result.toolCalls :
                    result.toolCalls[j] = executedToolCalls[k]


\* the waits between consecutive attempts, in ms: doubling from 1000, capped
\* at 10000
StatedDelays == <<1000, 2000, 4000, 8000, 10000, 10000, 10000>>

RetryBounded ==
    /\ maxRetriesArg >= 1
    /\ configKey \in ConfigKeys => ConfigMaxRetries(configKey) = 3
    /\ opCalls <= maxRetriesArg
    /\ \A k \in DOMAIN delays : delays[k] = StatedDelays[k]
    /\ wpc = "call" => opCalls = tryNo - 1 /\ Len(delays) = tryNo - 1
    /\ wpc = "wait" => opCalls = tryNo /\ Len(delays) = tryNo /\ tryNo < maxRetriesArg
    /\ wpc = "returned" =>
          /\ outcome.kind = "value" /\ outcome.value \in OperationValues
          /\ opCalls = tryNo /\ Len(delays) = opCalls - 1
    /\ wpc = "threw" =>
          /\ outcome.kind = "error" /\ outcome.error = maxRetriesArg
          /\ opCalls = maxRetriesArg /\ Len(delays) = maxRetriesArg - 1

\* C23: withRetry calls the operation at most maxRetries times (3 in every
\* provider configuration); it returns the value of the first call that
\* resolves and calls no more; between consecutive calls it waits 1000 ms
\* doubled per attempt and capped at 10000 ms, and not after the last call;
\* after the last rejected call it throws that call's error; and it ends.
C23_BoundedRetryWithBackoff ==
    /\ []RetryBounded
    /\ []((wpc \in {"returned", "threw"}) => [](wpc \in {"returned", "threw"}))
    /\ <>(wpc \in {"returned", "threw"})

\* the sixth attempt resolved after five rejected ones, the last wait capped
C23_Witness ==
    /\ wpc = "returned"
    /\ opCalls = 6
    /\ delays = <<1000, 2000, 4000, 8000, 10000>>


IdsOf(servers) == {servers[i].id : i \in 1..Len(servers)}

\* C24: the relevant servers, the catalog and the tool-call records of a turn
\* come from the turn's own arguments and the snapshot installed at its start,
\* whatever other turns have installed since: the relevant servers are the
\* active servers of its snapshot selected by its serverIds, every catalog
\* entry and every record is of one of them, in their order, and a finished
\* catalog has no entry of a server twice over.
C24_TurnStateIsPerTurn ==
    \A t \in TurnIds :
        LET own == RelevantOf(turns[t].snapshot, turns[t].serverIds)
            tools == turns[t].availableTools IN
        /\ turns[t].relevantServers = own
        /\ \A k \in DOMAIN tools : tools[k].serverId \in IdsOf(own)
        /\ \A i, j \in DOMAIN tools :
              (i < j /\ tools[i].serverId # tools[j].serverId) =>
                  \E a, b \in DOMAIN own :
                      a < b /\ own[a].id = tools[i].serverId
                            /\ own[b].id = tools[j].serverId
        /\ Len(tools) <= Len(Descriptors(own, Len(own)))
        /\ \A k \in DOMAIN turns[t].toolCalls :
              turns[t].toolCalls[k].serverId \in IdsOf(own)

\* a turn finished with tools of its own servers after another turn had
\* installed a different snapshot while it was suspended
C24_Witness ==
    \E t \in TurnIds :
        /\ turns[t].pc = "done"
        /\ turns[t].overtaken
        /\ turns[t].toolCalls # <<>>
        /\ activeServersField # turns[t].snapshot
        /\ IdsOf(activeServersField) \cap IdsOf(turns[t].relevantServers) = {}


\* what the model wrote: every key with the value of its last occurrence
WrittenArgs(list) ==
    { <<<<list[i].key>>, list[i].value>> :
        i \in {j \in 1..Len(list) : \A h \in (j + 1)..Len(list) : list[h].key # list[j].key} }

\* C25: parseFunctionArgs turns each key=value argument of the call into a
\* keyword argument whose value is the text between the quotes: for
\* symbol='ABC' the arguments are {"symbol": "ABC"}.
C25_KeywordArgumentsParsed ==
    argsDone /\ argList # <<>> => parsedArgs = WrittenArgs(argList)

(***************************************************************************)
(* Claims about dispatch targets, repeated dispatch and the registry       *)
(***************************************************************************)
\* a <tool_call> span whose body parses and names a server outside relevantServers
NamesOtherServer(m) ==
    LET parsed == ParseToolData(BodyOf(MatchText(response, m))) IN
    parsed.ok /\ ~FindServer(parsed.data.serverId)

InvokedInAttempt == invocations - mark.invocations

\* the tool calls among the first n of this attempt's response that resolve to
\* a tool of the catalog and one of the servers
ResolvedUpTo(n) == Cardinality({k \in 1..n : k <= Len(message) /\ Resolved(message[k])})

CodeDispatchesAt(at) ==
    {k \in DOMAIN dispatched : dispatched[k].kind = "code" /\ dispatched[k].at = at}

\* C28: processing one <tool_code> span issues at most one callTool, whether it
\* returns or throws: after it no further server and no further function name
\* of the span is tried.
C28_OneDispatchPerCodeSpan ==
    \A i \in DOMAIN toolCodeMatches :
        Cardinality(CodeDispatchesAt(toolCodeMatches[i].start)) <= 1

\* C29: once a stopServer of a key, or a cleanup, has completed, the map holds
\* no client for that key (for cleanup: for any key) until an initClient of the
\* key is started afterwards, also when an initClient of the key was awaiting
\* its ping or its connect while the stopServer or cleanup completed.
C29_ReleasedStaysEmpty ==
    \A q \in Procs : ghost[q].released => MapGet(clients, KeyOf(q)) = None

\* the Client objects whose connect() is being awaited
Connecting == {procs[p].cli : p \in {q \in Procs : procs[q].pc = "connect"}}

\* C30: every client that left the map has been closed: an open client is
\* stored in the map, so the open clients are never more than the stored ones
\* plus those being connected.
C30_NoOpenSessionOutsideRegistry ==
    /\ open \subseteq MapSessions(clients)
    /\ Cardinality(open) <= Len(clients) + Cardinality(Connecting)

====
